---- MODULE Spec2Model ----
(***************************************************************************)
(* frappe_whatsapp: the webhook ingestion pipeline (utils/webhook.py), the *)
(* status reconciler and the outbound send pipeline (doctype              *)
(* whatsapp_message/whatsapp_message.py) as a state machine over the      *)
(* record store.  One action per request handler; each action models the  *)
(* whole handler.                                                         *)
(***************************************************************************)
EXTENDS Integers, Sequences, FiniteSets, TLC

VARIABLES
    msgs,         \* tabWhatsApp Message: the stored docs, in creation order
    files,        \* tabFile: the stored File docs
    profiles,     \* tabWhatsApp Profiles: [number, profile_name]
    tmpl_status,  \* tabWhatsApp Templates.status, by template id
    api_next,     \* how many message ids the send API has handed out
    last,         \* the last request: its input and what it did
    inflight      \* the request that is between two of its steps, if any

vars == <<msgs, files, profiles, tmpl_status, api_next, last, inflight>>

\* ------------------------------------------------------------------ bounds
MaxRecords == 2
MaxBatch == 2
MaxSends == 2

\* ------------------------------------------------------------- python bits
\* Python None: JSON null, an unset doc field.  A value of its own, outside
\* the strings the inputs range over (the string "None" is another value).
None == "<None>"

\* A key that is not in a JSON object.
Absent == "<absent>"

\* Of a value read through two keys (message['text']['body']): the outer
\* object is there, the inner key is not.
Hollow == "<hollow>"

\* The same, the outer object being the empty one ({}).
Empty == "<empty>"

\* d.get(key): None when the key is not there.
Get(v) == IF v \in {Absent, Hollow, Empty} THEN None ELSE v

\* d[key]: KeyError when the key is not there.
KeyMissing(v) == v \in {Absent, Hollow, Empty}

\* str(v), as an f-string formats a str-or-None value.
Str(v) == IF v = None THEN "None" ELSE v

\* bool(s) of a str-or-None value read with .get.
Truthy(s) == Get(s) # None /\ s # ""

\* The characters of the strings the inputs carry, by code point: U+0001 to
\* U+00FF less the backtick (U+0060), which a string of this module cannot
\* hold.  Below holds the characters under the backtick, Above those over it.
Below == "\t\n\f\r !\"#$%&'()*+,-./0123456789:;<=>?@ABCDEFGHIJKLMNOPQRSTUVWXYZ[\\]^_"

Above == "abcdefghijklmnopqrstuvwxyz{|}~ ¡¢£¤¥¦§¨©ª«¬­®¯°±²³´µ¶·¸¹º»¼½¾¿ÀÁÂÃÄÅÆÇÈÉÊËÌÍÎÏÐÑÒÓÔÕÖ×ØÙÚÛÜÝÞßàáâãäåæçèéêëìíîïðñòóôõö÷øùúûüýþÿ"

\* chr(i) and ord(c), for the code points of the two tables.
chr(i) == IF i < 96 THEN SubSeq(Below, i, i) ELSE SubSeq(Above, i - 96, i - 96)

ord(c) == CHOOSE i \in (1..(Len(Below) + 1 + Len(Above))) \ {96} : chr(i) = c

\* str.isspace() of one character: the code points Python counts as
\* whitespace (\t \n \x0b \x0c \r, \x1c to \x1f, the space, \x85, \xa0).
Whitespace == { chr(i) : i \in {9, 10, 11, 12, 13, 28, 29, 30, 31, 32, 133, 160} }

\* s.startswith("http")
StartsWithHttp(s) == Len(s) >= 4 /\ SubSeq(s, 1, 4) = "http"

\* frappe.utils.get_url(): the site's public base URL.
get_url == "https://site.example"

\* frappe.error_log is the request-local list of logged errors (frappe.log_error
\* is the function that logs one, and the one template_utils.py calls).  Every
\* `except` handler of webhook.py calls frappe.error_log(...): the call of a
\* list raises TypeError inside the handler, so the handler itself raises.
error_log_raises == TRUE

\* ---------------------------------------------------------- configuration
\* WhatsApp Account docs: name, routing key, verify token.  The second one
\* was named after its token.
Accounts ==
    { [name |-> "acc1", phone_id |-> "pn1", webhook_verify_token |-> "tok1"],
      [name |-> "tok2", phone_id |-> "pn2", webhook_verify_token |-> "tok2"] }

AccountNames == { a.name : a \in Accounts }

\* frappe_whatsapp.utils.format_number: strips a leading "+".
format_number(number) ==
    IF number # None /\ Len(number) >= 1 /\ SubSeq(number, 1, 1) = "+"
    THEN SubSeq(number, 2, Len(number))
    ELSE number

\* frappe_whatsapp.utils.get_whatsapp_account: the Account whose routing key
\* is phone_id, None when there is none.
get_whatsapp_account(phone_id) ==
    IF \E a \in Accounts : a.phone_id = phone_id
    THEN (CHOOSE a \in Accounts : a.phone_id = phone_id).name
    ELSE None

\* WhatsApp Templates docs.  field_names / sample_values are the
\* comma-separated columns, already split.
Templates ==
    { [name |-> "order_update", id |-> "t1", actual_name |-> "order_update_v2",
       template_name |-> "order_update", language_code |-> "en",
       sample_values |-> <<"Alice", "INV-42">>,
       field_names |-> <<"customer ", chr(11) \o "\tname" \o chr(160)>>,
       header_type |-> None, sample |-> None],
      [name |-> "promo", id |-> "t2", actual_name |-> None,
       template_name |-> "promo", language_code |-> "en",
       sample_values |-> <<>>, field_names |-> <<>>,
       header_type |-> "IMAGE", sample |-> "/files/promo.png"] }

TemplateNames == { t.name : t \in Templates }
TemplateIds == { t.id : t \in Templates }

\* str.strip(): the whitespace at both ends removed.
RECURSIVE lstrip(_)
lstrip(s) ==
    IF Len(s) >= 1 /\ SubSeq(s, 1, 1) \in Whitespace
    THEN lstrip(SubSeq(s, 2, Len(s))) ELSE s

RECURSIVE rstrip(_)
rstrip(s) ==
    IF Len(s) >= 1 /\ SubSeq(s, Len(s), Len(s)) \in Whitespace
    THEN rstrip(SubSeq(s, 1, Len(s) - 1)) ELSE s

\* field_name.strip()
Strip(s) == rstrip(lstrip(s))

\* The reference documents of outbound template sends: the doctype that
\* exists and the names of its documents.
RefDoctypes == { "Sales Invoice" }
RefDocs == { "INV-42" }

\* The exception frappe.get_doc(doctype, name) leaves with, None when the
\* document is returned: ValueError when doctype is no string,
\* DoesNotExistError when there is no such document.
get_doc_exc(doctype, name) ==
    IF doctype = None THEN "ValueError"
    ELSE IF doctype \notin RefDoctypes \/ name \notin RefDocs
    THEN "DoesNotExistError"
    ELSE None

\* The HTTP status of a whitelisted call an exception (exc) has left:
\* frappe.throw raises ValidationError, answered 417; DoesNotExistError is
\* answered 404; any other exception 500.
http_status(exc) ==
    CASE exc = None -> 200
      [] exc = "ValidationError" -> 417
      [] exc = "DoesNotExistError" -> 404
      [] OTHER -> 500

\* ref_doc.get_formatted(field).

get_formatted(ref, field) ==
    CASE field = "customer" -> "Alice"
      [] field = "name" -> ref
      [] OTHER -> None

\* json.loads(template_json) of the custom payloads used here: whether it
\* decodes, and the decoded object's `type`.
JsonValid(tj) == tj \in {"{text}", "{location}", "{contacts}", "{interactive}", "{}"}

JsonType(tj) ==
    CASE tj = "{text}" -> "text"
      [] tj = "{location}" -> "location"
      [] tj = "{contacts}" -> "contacts"
      [] tj = "{interactive}" -> "interactive"
      [] OTHER -> None

\* ------------------------------------------------------------------ store
\* frappe.get_doc({"doctype": "WhatsApp Message", ...}): unset fields are None.
\* custom_ref_doc is doc.flags.custom_ref_doc, a map given as <<key, value>>
\* pairs; flags are never stored.
NewDoc ==
    [name |-> 0, type |-> None, message_type |-> None, from |-> None,
     to |-> None, message_id |-> None, status |-> None,
     conversation_id |-> None, delivered_at |-> None, read_at |-> None,
     content_type |-> None, message |-> None, attach |-> None,
     is_reply |-> FALSE, reply_to_message_id |-> None, profile_name |-> None,
     whatsapp_account |-> None, template |-> None, template_json |-> None,
     template_parameters |-> None, reference_doctype |-> None,
     reference_name |-> None, custom_ref_doc |-> <<>>]

\* The database as a request sees it.  profile_ok: whether tabWhatsApp
\* Profiles accepts an insert during this request.
World(profile_ok) ==
    [msgs |-> msgs, files |-> files, profiles |-> profiles,
     tmpl_status |-> tmpl_status, profile_ok |-> profile_ok]

HasProfile(w, number) == \E p \in w.profiles : p.number = number

\* WhatsAppMessage.create_whatsapp_profile
create_whatsapp_profile(w, doc) ==
    LET number == format_number(IF Truthy(doc.from) THEN doc.from ELSE doc.to)
    IN IF HasProfile(w, number)
       THEN w
       ELSE [w EXCEPT !.profiles =
                @ \cup {[number |-> number, profile_name |-> doc.profile_name]}]

\* WhatsAppMessage.update_profile_name, as on_update runs it after an insert
\* (has_value_changed is true of every field of a new doc).
update_profile_name(w, doc) ==
    LET number == doc.from
        from_number == format_number(number)
    IN IF ~Truthy(number) THEN w
       ELSE IF Truthy(doc.profile_name) /\ Truthy(from_number)
               /\ HasProfile(w, from_number)
       THEN [w EXCEPT !.profiles =
                { IF p.number = from_number
                  THEN [p EXCEPT !.profile_name = doc.profile_name]
                  ELSE p : p \in @ }]
       ELSE w

\* -------------------------------------------------------------- outbound
\* The JSON body of a send API POST.
BasePayload(to) ==
    [type |-> None, to |-> to, template |-> None,
     messaging_product |-> "whatsapp", context |-> None, text |-> None,
     link |-> None, caption |-> None, emoji |-> None, reaction_to |-> None,
     language |-> None, components |-> <<>>, custom |-> None]

\* WhatsAppMessage.notify.  api = [outcome, id]: what the send API answers.
\* Returns the doc, whether an exception left notify and which (exc), the
\* bodies POSTed and the NotificationLog entries written.  An unknown account
\* is frappe.get_doc's DoesNotExistError (line 212); a failed POST ends in
\* frappe.throw (lines 245, 248).
notify(doc, data, api) ==
    IF doc.whatsapp_account \notin AccountNames
    THEN [exc |-> "DoesNotExistError", doc |-> doc, raised |-> TRUE,
          sent |-> <<>>, logs |-> 0]
    ELSE IF api.outcome = "ok"
    THEN [exc |-> None, doc |-> [doc EXCEPT !.message_id = api.id],
          raised |-> FALSE, sent |-> <<data>>, logs |-> 0]
    ELSE [exc |-> "ValidationError", doc |-> doc, raised |-> TRUE,
          sent |-> <<data>>,
          logs |-> IF api.outcome = "error_envelope" THEN 1 ELSE 0]

\* custom_values.get(key)
dict_get(custom_values, key) ==
    LET hits == { i \in 1..Len(custom_values) : custom_values[i][1] = key }
    IN IF hits = {} THEN None
       ELSE custom_values[CHOOSE i \in hits : \A j \in hits : j <= i][2]

\* The characters json.dumps (ensure_ascii) writes as they are: the space
\* to the tilde, less the quote and the backslash it escapes.
Plain == { chr(i) : i \in (32..126) \ {96} } \ {"\"", "\\"}

\* '{0:04x}'.format(n)
hex4(n) ==
    LET digit(d) == SubSeq("0123456789abcdef", d + 1, d + 1)
    IN digit((n \div 4096) % 16) \o digit((n \div 256) % 16)
       \o digit((n \div 16) % 16) \o digit(n % 16)

\* json.dumps of a str: the quote, the backslash and \b \f \n \r \t get
\* their short escapes, every other character outside the space to the
\* tilde is written \uXXXX.
RECURSIVE json_escape(_)
json_escape(s) ==
    IF Len(s) = 0 THEN ""
    ELSE LET c == SubSeq(s, 1, 1)
         IN (CASE c \in Plain -> c
               [] c = "\"" -> "\\\""
               [] c = "\\" -> "\\\\"
               [] c = "\n" -> "\\n"
               [] c = "\r" -> "\\r"
               [] c = "\t" -> "\\t"
               [] c = "\f" -> "\\f"
               [] c = chr(8) -> "\\b"
               [] OTHER -> "\\u" \o hex4(ord(c)))
            \o json_escape(SubSeq(s, 2, Len(s)))

\* json.dumps of a list of strings and None.
RECURSIVE json_items(_)
json_items(values) ==
    LET one == IF Head(values) = None THEN "null"
               ELSE "\"" \o json_escape(Head(values)) \o "\""
    IN IF Tail(values) = <<>> THEN one
       ELSE one \o ", " \o json_items(Tail(values))

json_dumps(values) ==
    IF values = <<>> THEN "[]" ELSE "[" \o json_items(values) \o "]"

\* The body parameters with the declared field names used as they are split,
\* without strip().
RECURSIVE BodyParameters_unstripped(_, _)
BodyParameters_unstripped(field_names, doc) ==
    IF field_names = <<>> THEN <<>>
    ELSE <<[text |-> IF doc.custom_ref_doc # <<>>
                     THEN dict_get(doc.custom_ref_doc, Head(field_names))
                     ELSE get_formatted(doc.reference_name,
                                        Head(field_names)),
            type |-> "text"]>>
         \o BodyParameters_unstripped(Tail(field_names), doc)

\* The body parameters of a stored template, lines 136-149: one text
\* parameter per declared field, from flags.custom_ref_doc when it is set,
\* else from the reference document.
RECURSIVE BodyParameters(_, _)
BodyParameters(field_names, doc) ==
    IF field_names = <<>> THEN <<>>
    ELSE <<[text |-> IF doc.custom_ref_doc # <<>>
                     THEN dict_get(doc.custom_ref_doc, Strip(Head(field_names)))
                     ELSE get_formatted(doc.reference_name,
                                        Strip(Head(field_names))),
            type |-> "text"]>>
         \o BodyParameters(Tail(field_names), doc)

\* WhatsAppMessage.send_template
WhatsAppMessage_send_template(doc, api) ==
    LET data == BasePayload(format_number(doc.to))
        fail(exc) == [doc |-> doc, exc |-> exc, raised |-> TRUE,
                      sent |-> <<>>, logs |-> 0]
    IN IF Truthy(doc.template)
       THEN IF doc.template \notin TemplateNames
            THEN fail("DoesNotExistError")   \* frappe.get_doc, line 122
            ELSE
            LET template == CHOOSE t \in Templates : t.name = doc.template
                field_names == IF template.field_names # <<>>
                               THEN template.field_names
                               ELSE template.sample_values
                has_body == template.sample_values # <<>>
                parameters == BodyParameters(field_names, doc)
                body == IF has_body
                        THEN <<[type |-> "body", parameters |-> parameters]>>
                        ELSE <<>>
                url == IF StartsWithHttp(template.sample)
                       THEN template.sample
                       ELSE get_url \o template.sample
                header == IF Truthy(template.header_type)
                             /\ Truthy(template.sample)
                             /\ template.header_type = "IMAGE"
                          THEN <<[type |-> "header",
                                  parameters |->
                                      <<[text |-> url, type |-> "image"]>>]>>
                          ELSE <<>>
                doc1 == IF has_body
                        THEN [doc EXCEPT !.template_parameters =
                                 json_dumps([i \in 1..Len(parameters) |->
                                                parameters[i].text])]
                        ELSE doc
                payload == [data EXCEPT
                               !.type = "template",
                               !.template = IF Truthy(template.actual_name)
                                            THEN template.actual_name
                                            ELSE template.template_name,
                               !.language = template.language_code,
                               !.components = body \o header]
                ref_exc == get_doc_exc(doc.reference_doctype,
                                       doc.reference_name)
            IN IF has_body /\ doc.custom_ref_doc = <<>> /\ ref_exc # None
               THEN fail(ref_exc)   \* frappe.get_doc, line 144
               ELSE notify(doc1, payload, api)
       ELSE IF Truthy(doc.template_json)
       THEN IF ~JsonValid(doc.template_json) THEN fail("ValidationError")
            ELSE IF JsonType(doc.template_json) \in {"text", "location", "contacts"}
            THEN [doc |-> [doc EXCEPT !.message_type = "Manual",
                                      !.content_type = JsonType(doc.template_json)],
                  exc |-> None, raised |-> FALSE, sent |-> <<>>, logs |-> 0]
            ELSE notify(doc,
                        [data EXCEPT
                            !.custom = doc.template_json,
                            !.type = IF Truthy(JsonType(doc.template_json))
                                     THEN JsonType(doc.template_json)
                                     ELSE "template"],
                        api)
       ELSE fail("ValidationError")

\* The manual branch of before_insert: build the payload.
ManualPayload(doc) ==
    LET link == IF Truthy(doc.attach) /\ ~StartsWithHttp(doc.attach)
                THEN get_url \o "/" \o doc.attach
                ELSE doc.attach
        d0 == [BasePayload(format_number(doc.to)) EXCEPT !.type = doc.content_type]
        d1 == IF doc.is_reply /\ Truthy(doc.reply_to_message_id)
              THEN [d0 EXCEPT !.context = doc.reply_to_message_id]
              ELSE d0
    IN CASE doc.content_type \in {"document", "image", "video"} ->
                [d1 EXCEPT !.link = link, !.caption = doc.message]
         [] doc.content_type = "reaction" ->
                [d1 EXCEPT !.reaction_to = doc.reply_to_message_id,
                           !.emoji = doc.message]
         [] doc.content_type = "text" -> [d1 EXCEPT !.text = doc.message]
         [] doc.content_type = "audio" -> [d1 EXCEPT !.link = link]
         [] OTHER -> d1

\* before_insert, lines 103-108: the status after notify; whatever notify
\* raised is caught and frappe.throw raises in its place.
send_status(n) ==
    IF n.raised
    THEN [n EXCEPT !.doc.status = "Failed", !.exc = "ValidationError"]
    ELSE [n EXCEPT !.doc.status = "Success"]

\* before_insert, lines 46-108: the send of an outgoing doc without message_id.
before_insert_send(doc, api) ==
    IF doc.type = "Outgoing" /\ ~Truthy(doc.message_id)
    THEN IF doc.message_type = "Template"
         THEN WhatsAppMessage_send_template(doc, api)
         ELSE IF Truthy(doc.template_json) /\ ~JsonValid(doc.template_json)
         THEN [doc |-> doc, exc |-> "ValidationError", raised |-> TRUE,
               sent |-> <<>>, logs |-> 0]
         ELSE send_status(notify(doc,
                  IF Truthy(doc.template_json)
                  THEN [BasePayload(format_number(doc.to)) EXCEPT
                           !.custom = doc.template_json,
                           !.type = JsonType(doc.template_json)]
                  ELSE ManualPayload(doc),
                  api))
    ELSE [doc |-> doc, exc |-> None, raised |-> FALSE, sent |-> <<>>,
          logs |-> 0]

\* before_insert, line 110: the profile, once the send has not raised.  An
\* exception of the Profiles insert leaves before_insert.
before_insert_profile(w, r) ==
    LET number == format_number(IF Truthy(r.doc.from) THEN r.doc.from ELSE r.doc.to)
        profile_fails == ~r.raised /\ ~HasProfile(w, number) /\ ~w.profile_ok
    IN [doc |-> r.doc,
        exc |-> IF profile_fails THEN "ValidationError" ELSE r.exc,
        raised |-> r.raised \/ profile_fails, sent |-> r.sent,
        logs |-> r.logs,
        w |-> IF r.raised \/ profile_fails THEN w
              ELSE create_whatsapp_profile(w, r.doc)]

\* WhatsAppMessage.before_insert.  Returns the doc, the world, whether an
\* exception left before_insert, the bodies POSTed.
before_insert(w, doc, api) ==
    before_insert_profile(w, before_insert_send(doc, api))

\* Document.insert once before_insert has run (b): the row, then on_update.
\* An exception in before_insert leaves no row.
insert_row(w, b) ==
    IF b.raised
    THEN [name |-> 0, exc |-> b.exc, raised |-> TRUE, sent |-> b.sent, w |-> w]
    ELSE [name |-> Len(w.msgs) + 1, exc |-> None, raised |-> FALSE,
          sent |-> b.sent,
          w |-> update_profile_name(
                    [b.w EXCEPT !.msgs =
                        Append(@, [b.doc EXCEPT !.name = Len(w.msgs) + 1,
                                                !.custom_ref_doc = <<>>])],
                    b.doc)]

\* Document.insert of a WhatsApp Message.
insert(w, doc, api) == insert_row(w, before_insert(w, doc, api))

\* --------------------------------------------------------------- inbound
\* One raw message of a webhook payload, its nested values flattened:
\* context is context.id, text is text.body, emoji and reaction_to are
\* reaction.emoji and reaction.message_id, button is button.text,
\* button_reply and list_reply are their title, nfm_reply its response_json,
\* media_id and caption are message[type].id and .caption.  A field is
\* Absent when its (outer) key is not in the message, Hollow when only the
\* inner key is missing from an outer object that has other keys, Empty
\* when the outer object is {}, None when the value is JSON null.
RawMessage ==
    [text |-> Absent, contacts |-> <<>>, type |-> Absent, context |-> Absent,
     caption |-> Absent, reaction_to |-> Absent, emoji |-> Absent,
     from |-> Absent, id |-> Absent, button |-> Absent,
     has_interactive |-> FALSE, button_reply |-> Absent,
     list_reply |-> Absent, nfm_reply |-> Absent, has_location |-> FALSE,
     has_latitude |-> FALSE, latitude |-> 0, has_longitude |-> FALSE,
     longitude |-> 0, loc_name |-> Absent, address |-> Absent,
     has_contacts |-> FALSE, media_id |-> Absent]

\* What the platform and the file store answer while one media message is
\* fetched.
MediaEnv ==
    [meta_status |-> 200, mime_type |-> "image/jpeg", content_status |-> 200,
     hash |-> "a1b2c3d4e5", file_ok |-> TRUE]

MediaTypes == {"image", "audio", "video", "document", "sticker"}

\* mime_type.split('/')[-1] if '/' in mime_type else "dat"
file_extension(mime_type) ==
    LET slashes == { i \in 1..Len(mime_type) : SubSeq(mime_type, i, i) = "/" }
        last_slash == CHOOSE i \in slashes : \A j \in slashes : j <= i
    IN IF slashes = {} THEN "dat"
       ELSE SubSeq(mime_type, last_slash + 1, Len(mime_type))

\* What handling one message did.  logged: the entries it wrote to the
\* error log; outside the `except` handlers webhook.py logs nothing.
Handled(w, raised, created, meta_gets, content_gets, file_saves) ==
    [raised |-> raised, w |-> w, created |-> created, meta_gets |-> meta_gets,
     content_gets |-> content_gets, file_saves |-> file_saves,
     reached |-> TRUE, logged |-> 0]

\* An `except` handler of webhook.py: it calls frappe.error_log, which raises
\* before anything is logged.
Except(w, created, meta_gets, content_gets, file_saves) ==
    [Handled(w, error_log_raises, created, meta_gets, content_gets, file_saves)
        EXCEPT !.logged = IF error_log_raises THEN 0 ELSE 1]

NoApi == [id |-> None, outcome |-> "none"]

\* attach_file setting the attach URL on the Message whether or not the File
\* doc was saved.
attach_file_unsaved(w, ins, file_name, env) ==
    IF ins.raised THEN Except(w, <<>>, 1, 1, 0)
    ELSE IF ~env.file_ok
    THEN Handled([ins.w EXCEPT
                     !.msgs[ins.name].attach = "/files/" \o file_name],
                 FALSE, <<ins.name>>, 1, 1, 0)
    ELSE Handled([ins.w EXCEPT
                     !.files = Append(@, [file_name |-> file_name,
                                          attached_to_name |-> ins.name,
                                          file_url |-> "/files/" \o file_name]),
                     !.msgs[ins.name].attach = "/files/" \o file_name],
                 FALSE, <<ins.name>>, 1, 1, 1)

\* handle_media_message, lines 74-89: the Message doc of a fetched media
\* message.
media_message_doc(message, message_type, whatsapp_account, sender_profile_name, is_reply, reply_to_message_id, file_name) ==
    [NewDoc EXCEPT
        !.type = "Incoming",
        !.from = message.from,
        !.message_id = message.id,
        !.reply_to_message_id = reply_to_message_id,
        !.is_reply = is_reply,
        !.message = IF Truthy(message.caption) THEN message.caption
                    ELSE "/files/" \o file_name,
        !.content_type = message_type,
        !.profile_name = sender_profile_name,
        !.whatsapp_account = whatsapp_account]

\* handle_media_message, lines 92-107, once the Message doc is inserted
\* (ins): the File doc, then the attach URL saved on the Message.
attach_file(w, ins, file_name, env) ==
    IF ins.raised THEN Except(w, <<>>, 1, 1, 0)
    ELSE IF ~env.file_ok THEN Except(ins.w, <<ins.name>>, 1, 1, 0)
    ELSE Handled([ins.w EXCEPT
                     !.files = Append(@, [file_name |-> file_name,
                                          attached_to_name |-> ins.name,
                                          file_url |-> "/files/" \o file_name]),
                     !.msgs[ins.name].attach = "/files/" \o file_name],
                 FALSE, <<ins.name>>, 1, 1, 1)

\* handle_media_message going on to the content GET whatever the metadata
\* GET answered (line 61 dropped).
handle_media_message_unchecked(w, message, message_type, whatsapp_account, sender_profile_name, is_reply, reply_to_message_id, env) ==
    IF KeyMissing(message.media_id)
    THEN Except(w, <<>>, 0, 0, 0)
    ELSE IF env.content_status # 200
    THEN Handled(w, FALSE, <<>>, 1, 1, 0)
    ELSE attach_file(w,
             insert(w, [NewDoc EXCEPT
                           !.type = "Incoming",
                           !.from = message.from,
                           !.message_id = message.id,
                           !.reply_to_message_id = reply_to_message_id,
                           !.is_reply = is_reply,
                           !.message = IF Truthy(message.caption)
                                       THEN message.caption
                                       ELSE "/files/" \o env.hash \o ".dat",
                           !.content_type = message_type,
                           !.profile_name = sender_profile_name,
                           !.whatsapp_account = whatsapp_account],
                    NoApi),
             env.hash \o ".dat", env)

\* handle_media_message
handle_media_message(w, message, message_type, whatsapp_account, sender_profile_name, is_reply, reply_to_message_id, env) ==
    IF KeyMissing(message.media_id)
    THEN Except(w, <<>>, 0, 0, 0)              \* message[message_type]: KeyError
    ELSE IF env.meta_status # 200
    THEN Handled(w, FALSE, <<>>, 1, 0, 0)
    ELSE IF env.mime_type = None
    THEN Except(w, <<>>, 1, 0, 0)              \* '/' in None: TypeError
    ELSE IF env.content_status # 200
    THEN Handled(w, FALSE, <<>>, 1, 1, 0)
    ELSE
    LET file_name == env.hash \o "." \o file_extension(env.mime_type)
    IN attach_file(w,
                   insert(w, media_message_doc(message, message_type,
                                 whatsapp_account, sender_profile_name,
                                 is_reply, reply_to_message_id, file_name),
                          NoApi),
                   file_name, env)

\* " | ".join(f"{name} ({wa_id})" for each contact)
RECURSIVE contact_messages(_)
contact_messages(contacts) ==
    IF contacts = <<>> THEN ""
    ELSE LET c == Head(contacts)
             one == (IF KeyMissing(c.formatted_name) THEN "Unknown Name"
                     ELSE Str(c.formatted_name))
                    \o " (" \o (IF KeyMissing(c.wa_id) THEN "No WA ID"
                                ELSE Str(c.wa_id))
                    \o ")"
         IN IF Tail(contacts) = <<>> THEN one
            ELSE one \o " | " \o contact_messages(Tail(contacts))

\* The body of a location message.
location_text(message) ==
    LET coords == IF message.has_latitude /\ message.latitude # 0
                     /\ message.has_longitude /\ message.longitude # 0
                  THEN "Lat: " \o ToString(message.latitude) \o ", Lon: "
                       \o ToString(message.longitude)
                  ELSE "Location received, but coordinates are missing."
        named == IF Truthy(message.loc_name)
                 THEN coords \o "\nName: " \o message.loc_name ELSE coords
    IN IF Truthy(message.address)
       THEN named \o "\nAddress: " \o message.address ELSE named

\* A reaction stored as a reply to the message named by the outer context.
reaction_doc_outer_context(message, common_fields) ==
    [common_fields EXCEPT
        !.message = message.emoji,
        !.content_type = "reaction"]

\* handle_incoming_message, lines 142-149: the doc of a reaction.  The keys
\* written after **common_fields replace its reply_to_message_id and is_reply.
reaction_doc(message, common_fields) ==
    [common_fields EXCEPT
        !.message = message.emoji,
        !.reply_to_message_id = message.reaction_to,
        !.content_type = "reaction",
        !.is_reply = TRUE]

\* The fallback storing every unknown type as text.
unhandled_doc_as_text(message_type, common_fields) ==
    [common_fields EXCEPT
        !.message = "Unhandled type: " \o Str(Get(message_type)),
        !.content_type = "text"]

\* handle_incoming_message, lines 228-235: the doc of any other type.
unhandled_doc(message_type, common_fields) ==
    [common_fields EXCEPT
        !.message = "Unhandled type: " \o Str(Get(message_type)),
        !.content_type = Get(message_type)]

\* handle_incoming_message, lines 135-235: the doc a non-media message is
\* stored as.  kind "insert": doc is inserted; "KeyError": a key is absent;
\* "drop": nothing is stored.
classify(message, common_fields) ==
    LET message_type == message.type
        Doc(doc) == [doc |-> doc, kind |-> "insert"]
        KeyError == [doc |-> common_fields, kind |-> "KeyError"]
        interactive_text ==
            CASE message.button_reply # Absent -> message.button_reply
              [] message.list_reply # Absent -> message.list_reply
              [] message.nfm_reply # Absent -> message.nfm_reply
              [] OTHER -> ""
        interactive_type ==
            CASE message.button_reply # Absent -> "button_reply"
              [] message.list_reply # Absent -> "list_reply"
              [] message.nfm_reply # Absent -> "flow_reply"
              [] OTHER -> ""
    IN CASE message_type = "text" ->
              IF KeyMissing(message.text) THEN KeyError
              ELSE Doc([common_fields EXCEPT
                           !.message = message.text,
                           !.content_type = message_type])
         [] message_type = "reaction" ->
              IF KeyMissing(message.emoji) \/ KeyMissing(message.reaction_to)
              THEN KeyError
              ELSE Doc(reaction_doc(message, common_fields))
         [] message_type = "interactive" ->
              IF ~message.has_interactive \/ interactive_text \in {Hollow, Empty}
              THEN KeyError
              ELSE IF Truthy(interactive_text)
              THEN Doc([common_fields EXCEPT
                           !.message = interactive_text,
                           !.content_type = interactive_type,
                           !.is_reply = TRUE])
              ELSE [doc |-> common_fields, kind |-> "drop"]
         [] message_type = "location" ->
              Doc([common_fields EXCEPT
                      !.message = location_text(message),
                      !.content_type = message_type])
         [] message_type = "contact" ->
              IF ~message.has_contacts THEN KeyError
              ELSE Doc([common_fields EXCEPT
                           !.message = contact_messages(message.contacts),
                           !.content_type = message_type])
         [] message_type = "button" ->
              IF KeyMissing(message.button) THEN KeyError
              ELSE Doc([common_fields EXCEPT
                           !.message = message.button,
                           !.content_type = message_type])
         [] OTHER -> Doc(unhandled_doc(message_type, common_fields))

\* The rows of tabWhatsApp Message whose message_id is id: what
\* frappe.db.get_value(..., filters={"message_id": id}) chooses from.
Matches(w, id) == { i \in 1..Len(w.msgs) : w.msgs[i].message_id = id }

\* The insert of a classified doc skipped when a stored row already has its
\* message_id.
inserted_deduplicated(w, ins) ==
    IF ins.raised THEN Except(w, <<>>, 0, 0, 0)
    ELSE IF Matches(w, ins.w.msgs[ins.name].message_id) # {}
    THEN Handled(w, FALSE, <<>>, 0, 0, 0)
    ELSE Handled(ins.w, FALSE, <<ins.name>>, 0, 0, 0)

\* handle_incoming_message, the insert of a classified doc (ins).
inserted(w, ins) ==
    IF ins.raised THEN Except(w, <<>>, 0, 0, 0)
    ELSE Handled(ins.w, FALSE, <<ins.name>>, 0, 0, 0)

\* handle_incoming_message, lines 237-240: an exception that left
\* handle_media_message (m) reaches the outer handler.
media_handled(m) ==
    IF m.raised
    THEN Except(m.w, m.created, m.meta_gets, m.content_gets, m.file_saves)
    ELSE m

\* handle_incoming_message
handle_incoming_message(w, message, whatsapp_account, sender_profile_name, env) ==
    LET is_reply == Truthy(message.context)
        reply_to_message_id == IF is_reply THEN message.context ELSE None
        common_fields == [NewDoc EXCEPT
                             !.type = "Incoming",
                             !.from = message.from,
                             !.message_id = message.id,
                             !.reply_to_message_id = reply_to_message_id,
                             !.is_reply = is_reply,
                             !.profile_name = sender_profile_name,
                             !.whatsapp_account = whatsapp_account]
    IN IF KeyMissing(message.from) \/ KeyMissing(message.id)
       THEN Except(w, <<>>, 0, 0, 0)                 \* message['from']: KeyError
       ELSE IF message.type \in MediaTypes
       THEN media_handled(
                handle_media_message(w, message, message.type,
                    whatsapp_account, sender_profile_name, is_reply,
                    reply_to_message_id, env))
       ELSE IF classify(message, common_fields).kind = "KeyError"
       THEN Except(w, <<>>, 0, 0, 0)
       ELSE IF classify(message, common_fields).kind = "drop"
       THEN Handled(w, FALSE, <<>>, 0, 0, 0)
       ELSE inserted(w, insert(w, classify(message, common_fields).doc, NoApi))

\* ---------------------------------------------------------------- status

\* update_message_status without its `if name:` (as in template_utils.py,
\* lines 330-336): frappe.get_doc("WhatsApp Message", None) raises.
update_message_status_unguarded(w, statuses, name) ==
    IF statuses = <<>> \/ name = 0
    THEN [raised |-> TRUE, w |-> w]
    ELSE [raised |-> FALSE,
          w |-> [w EXCEPT
                    !.msgs[name].status = statuses[1].status,
                    !.msgs[name].conversation_id =
                        IF Truthy(statuses[1].conversation)
                        THEN statuses[1].conversation ELSE @]]

\* update_message_status refusing an event that repeats the stored status.
update_message_status_strict(w, statuses, name) ==
    IF statuses = <<>>
       \/ (name # 0 /\ w.msgs[name].status = statuses[1].status)
    THEN [raised |-> TRUE, w |-> w]
    ELSE IF name = 0 THEN [raised |-> FALSE, w |-> w]
    ELSE [raised |-> FALSE,
          w |-> [w EXCEPT
                    !.msgs[name].status = statuses[1].status,
                    !.msgs[name].conversation_id =
                        IF Truthy(statuses[1].conversation)
                        THEN statuses[1].conversation ELSE @]]

\* update_message_status walking the whole statuses array instead of reading
\* statuses[0] only: every row whose id some entry carries takes the status
\* and conversation of the last such entry.
update_message_status_every(w, statuses, name) ==
    IF statuses = <<>>
    THEN [raised |-> error_log_raises, w |-> w]
    ELSE [raised |-> FALSE,
          w |-> [w EXCEPT !.msgs =
                    [i \in 1..Len(w.msgs) |->
                        LET hits == { k \in 1..Len(statuses) :
                                        statuses[k].id = w.msgs[i].message_id }
                            k == CHOOSE h \in hits : \A g \in hits : g <= h
                        IN IF hits = {} THEN w.msgs[i]
                           ELSE [w.msgs[i] EXCEPT
                                    !.status = statuses[k].status,
                                    !.conversation_id =
                                        IF Truthy(statuses[k].conversation)
                                        THEN statuses[k].conversation ELSE @]]]]

\* update_message_status assigning conversation_id without line 353's
\* `if conversation:`.
update_message_status_clearing_conversation(w, statuses, name) ==
    IF statuses = <<>>
    THEN [raised |-> error_log_raises, w |-> w]
    ELSE IF name = 0 THEN [raised |-> FALSE, w |-> w]
    ELSE [raised |-> FALSE,
          w |-> [w EXCEPT
                    !.msgs[name].status = statuses[1].status,
                    !.msgs[name].conversation_id = statuses[1].conversation]]

\* update_message_status.  statuses: the event's statuses array; name: the
\* row get_value returned (0: none).
update_message_status(w, statuses, name) ==
    IF statuses = <<>>
    THEN [raised |-> error_log_raises, w |-> w]    \* data['statuses'][0]
    ELSE IF KeyMissing(statuses[1].id) \/ KeyMissing(statuses[1].status)
    THEN [raised |-> error_log_raises, w |-> w]    \* ['id'], ['status']
    ELSE LET status == statuses[1].status
             conversation == statuses[1].conversation
             doc == [w.msgs[name] EXCEPT
                        !.status = status,
                        !.conversation_id =
                            IF Truthy(conversation) THEN conversation ELSE @]
         IN IF name # 0
            THEN [raised |-> FALSE, w |-> [w EXCEPT !.msgs[name] = doc]]
            ELSE [raised |-> FALSE, w |-> w]

\* update_template_status: UPDATE ... SET status = %(event)s WHERE id =
\* %(message_template_id)s, with data as the parameters: a parameter that
\* is not in data is a KeyError, and the handler's error_log call raises.
update_template_status(w, data) ==
    IF KeyMissing(data.event) \/ KeyMissing(data.message_template_id)
    THEN [raised |-> error_log_raises, w |-> w]
    ELSE [raised |-> FALSE,
          w |-> [w EXCEPT !.tmpl_status =
                    [t \in DOMAIN @ |->
                        IF t = data.message_template_id THEN data.event
                        ELSE @[t]]]]

\* update_status
update_status(w, data, name) ==
    CASE data.field = "message_template_status_update" ->
             update_template_status(w, data)
      [] data.field = "messages" ->
             update_message_status(w, data.statuses, name)
      [] OTHER -> [raised |-> FALSE, w |-> w]

\* --------------------------------------------------------------- webhook
NotReached ==
    [raised |-> FALSE, created |-> <<>>, meta_gets |-> 0, content_gets |-> 0,
     file_saves |-> 0, reached |-> FALSE, logged |-> 0]

Outcome(h) ==
    [raised |-> h.raised, created |-> h.created, meta_gets |-> h.meta_gets,
     content_gets |-> h.content_gets, file_saves |-> h.file_saves,
     reached |-> h.reached, logged |-> h.logged]

\* post, lines 299-301: the loop over the batch, after its first message
\* was handled (h).  An exception that leaves handle_incoming_message leaves
\* the loop.
RECURSIVE handle_messages(_, _, _, _, _)
handle_rest(h, messages, envs, whatsapp_account, sender_profile_name) ==
    IF h.raised
    THEN [raised |-> TRUE, w |-> h.w,
          results |-> <<Outcome(h)>>
                      \o [i \in 1..Len(messages) |-> NotReached]]
    ELSE [raised |-> handle_messages(h.w, messages, envs, whatsapp_account,
                                     sender_profile_name).raised,
          w |-> handle_messages(h.w, messages, envs, whatsapp_account,
                                sender_profile_name).w,
          results |-> <<Outcome(h)>>
                      \o handle_messages(h.w, messages, envs, whatsapp_account,
                                         sender_profile_name).results]

handle_messages(w, messages, envs, whatsapp_account, sender_profile_name) ==
    IF messages = <<>>
    THEN [raised |-> FALSE, w |-> w, results |-> <<>>]
    ELSE handle_rest(
             handle_incoming_message(w, Head(messages), whatsapp_account,
                                     sender_profile_name, Head(envs)),
             Tail(messages), Tail(envs), whatsapp_account, sender_profile_name)

\* A webhook POST body.  shape: how much of entry[0].changes[0].value is
\* there.  statuses is <<>> when the value has no statuses key and when the
\* key holds [], which empty_statuses tells apart.
Payload ==
    [profile_name |-> None, statuses |-> <<>>, event |-> Absent,
     message_template_id |-> Absent, field |-> "messages", messages |-> <<>>,
     phone_id |-> "pn1", shape |-> "ok", empty_statuses |-> FALSE]

\* post, lines 293-297 and 303-308: the first change entry reconciled (st).
reconciled(st) ==
    [http |-> IF st.raised THEN 500 ELSE 200, raised |-> st.raised,
     w |-> st.w, results |-> <<>>, reconciled |-> TRUE]

\* post, lines 299-301: the batch handled (hm).
classified(hm) ==
    [http |-> IF hm.raised THEN 500 ELSE 200, raised |-> hm.raised,
     w |-> hm.w, results |-> hm.results, reconciled |-> FALSE]

\* post.  env: whether the NotificationLog insert works (log_ok), what the
\* media fetches answer (media, one per message), the row get_value finds
\* (name).
post(w, data, env) ==
    LET failed == [http |-> 500, raised |-> error_log_raises, w |-> w,
                   results |-> <<>>, reconciled |-> FALSE]
        messages == data.messages
        phone_id == data.phone_id
        whatsapp_account == IF Truthy(phone_id)
                            THEN get_whatsapp_account(phone_id) ELSE None
    IN IF ~env.log_ok /\ error_log_raises THEN failed
       ELSE IF data.shape # "ok" THEN failed
       ELSE IF whatsapp_account = None /\ messages # <<>>
       THEN [http |-> 200, raised |-> FALSE, w |-> w,
             results |-> [i \in 1..Len(messages) |-> NotReached],
             reconciled |-> FALSE]
       ELSE IF whatsapp_account # None /\ messages # <<>>
       THEN classified(handle_messages(w, messages, env.media,
                                       whatsapp_account, data.profile_name))
       ELSE reconciled(update_status(w, data, env.name))

\* ------------------------------------------- utils/template_utils.py
\* frappe_whatsapp.utils.template_utils.webhook is a second whitelisted
\* endpoint over the same tables.  Its handlers have no try/except but the
\* one of handle_media_message, which calls frappe.log_error: an exception
\* anywhere else leaves the request.  The database is taken to accept every
\* insert.

\* handle_incoming_message, lines 172-178: the body of a location message.
legacy_location_text(message) ==
    LET coords == "Lat: "
                  \o (IF message.has_latitude THEN ToString(message.latitude)
                      ELSE "None")
                  \o ", Lon: "
                  \o (IF message.has_longitude THEN ToString(message.longitude)
                      ELSE "None")
        named == IF Truthy(message.loc_name)
                 THEN coords \o ", Name: " \o message.loc_name ELSE coords
    IN IF Truthy(message.address)
       THEN named \o ", Address: " \o message.address ELSE named

\* The keys of a message whose value is not an object: the strings of the
\* common fields and the contacts list.
legacy_not_objects(message) ==
    {"id", "from", "type"}
    \cup (IF message.has_contacts THEN {"contacts"} ELSE {})

\* handle_incoming_message, lines 130-226: as in webhook.py but for the
\* location branch, which reads message['location'], and the fallback
\* (line 219), whose message.get(type, {}).get(type, ...) raises
\* AttributeError when message[type] is there and is not an object.
legacy_classify(message, common_fields) ==
    IF message.type = "location"
    THEN IF ~message.has_location
         THEN [doc |-> common_fields, kind |-> "KeyError"]
         ELSE [doc |-> [common_fields EXCEPT
                           !.message = legacy_location_text(message),
                           !.content_type = message.type],
               kind |-> "insert"]
    ELSE IF /\ message.type \notin {"text", "reaction", "interactive",
                                    "location", "contact", "button"}
            /\ message.type \in legacy_not_objects(message)
    THEN [doc |-> common_fields, kind |-> "AttributeError"]
    ELSE classify(message, common_fields)

\* handle_media_message: lines 42-108 are those of webhook.py; the handler
\* at line 110 logs the exception and returns.
legacy_handle_media_message(w, message, message_type, whatsapp_account, sender_profile_name, is_reply, reply_to_message_id, env) ==
    [raised |-> FALSE,
     w |-> handle_media_message(w, message, message_type, whatsapp_account,
               sender_profile_name, is_reply, reply_to_message_id, env).w,
     created |-> handle_media_message(w, message, message_type,
                     whatsapp_account, sender_profile_name, is_reply,
                     reply_to_message_id, env).created,
     meta_gets |-> handle_media_message(w, message, message_type,
                       whatsapp_account, sender_profile_name, is_reply,
                       reply_to_message_id, env).meta_gets,
     content_gets |-> handle_media_message(w, message, message_type,
                          whatsapp_account, sender_profile_name, is_reply,
                          reply_to_message_id, env).content_gets,
     file_saves |-> handle_media_message(w, message, message_type,
                        whatsapp_account, sender_profile_name, is_reply,
                        reply_to_message_id, env).file_saves,
     reached |-> TRUE,
     logged |-> IF handle_media_message(w, message, message_type,
                       whatsapp_account, sender_profile_name, is_reply,
                       reply_to_message_id, env).raised
                   \/ handle_media_message(w, message, message_type,
                          whatsapp_account, sender_profile_name, is_reply,
                          reply_to_message_id, env).logged = 1
                THEN 1 ELSE 0]

\* handle_incoming_message.  is_reply is bool(message.get('context')): false
\* without the key and for {}; message['context']['id'] is read whenever it
\* is true.
legacy_handle_incoming_message(w, message, whatsapp_account, sender_profile_name, env) ==
    LET is_reply == message.context \notin {Absent, Empty}
        reply_to_message_id == IF is_reply THEN message.context ELSE None
        common_fields == [NewDoc EXCEPT
                             !.type = "Incoming",
                             !.from = message.from,
                             !.message_id = message.id,
                             !.reply_to_message_id = reply_to_message_id,
                             !.is_reply = is_reply,
                             !.profile_name = sender_profile_name,
                             !.whatsapp_account = whatsapp_account]
        KeyError == Handled(w, TRUE, <<>>, 0, 0, 0)
    IN IF message.context = Hollow THEN KeyError
       ELSE IF KeyMissing(message.from) \/ KeyMissing(message.id) THEN KeyError
       ELSE IF message.type \in MediaTypes
       THEN legacy_handle_media_message(w, message, message.type,
                whatsapp_account, sender_profile_name, is_reply,
                reply_to_message_id, env)
       ELSE IF legacy_classify(message, common_fields).kind
                   \in {"KeyError", "AttributeError"}
       THEN KeyError
       ELSE IF legacy_classify(message, common_fields).kind = "drop"
       THEN Handled(w, FALSE, <<>>, 0, 0, 0)
       ELSE Handled(insert(w, legacy_classify(message, common_fields).doc,
                           NoApi).w,
                    FALSE,
                    <<insert(w, legacy_classify(message, common_fields).doc,
                             NoApi).name>>,
                    0, 0, 0)

\* post, lines 284-286: the loop over the batch.
RECURSIVE legacy_handle_messages(_, _, _, _, _)
legacy_handle_rest(h, messages, envs, whatsapp_account, sender_profile_name) ==
    IF h.raised
    THEN [raised |-> TRUE, w |-> h.w,
          results |-> <<Outcome(h)>>
                      \o [i \in 1..Len(messages) |-> NotReached]]
    ELSE [raised |-> legacy_handle_messages(h.w, messages, envs,
                                            whatsapp_account,
                                            sender_profile_name).raised,
          w |-> legacy_handle_messages(h.w, messages, envs, whatsapp_account,
                                       sender_profile_name).w,
          results |-> <<Outcome(h)>>
                      \o legacy_handle_messages(h.w, messages, envs,
                                                whatsapp_account,
                                                sender_profile_name).results]

legacy_handle_messages(w, messages, envs, whatsapp_account, sender_profile_name) ==
    IF messages = <<>>
    THEN [raised |-> FALSE, w |-> w, results |-> <<>>]
    ELSE legacy_handle_rest(
             legacy_handle_incoming_message(w, Head(messages),
                 whatsapp_account, sender_profile_name, Head(envs)),
             Tail(messages), Tail(envs), whatsapp_account, sender_profile_name)

\* update_message_status, lines 325-336: data['statuses'] is a KeyError
\* without the key, [0] an IndexError on an empty array; no `if name:`
\* before frappe.get_doc("WhatsApp Message", name).
legacy_update_message_status(w, data, name) ==
    LET statuses == data.statuses
    IN IF statuses = <<>>
       THEN [exc |-> IF data.empty_statuses THEN "IndexError" ELSE "KeyError",
             raised |-> TRUE, w |-> w]
       ELSE IF KeyMissing(statuses[1].id) \/ KeyMissing(statuses[1].status)
       THEN [exc |-> "KeyError", raised |-> TRUE, w |-> w]
       ELSE IF name = 0
       THEN [exc |-> "DoesNotExistError", raised |-> TRUE, w |-> w]
       ELSE [exc |-> None, raised |-> FALSE,
             w |-> [w EXCEPT
                       !.msgs[name].status = statuses[1].status,
                       !.msgs[name].conversation_id =
                           IF Truthy(statuses[1].conversation)
                           THEN statuses[1].conversation ELSE @]]

\* update_template_status, lines 315-322.
legacy_update_template_status(w, data) ==
    IF KeyMissing(data.event) \/ KeyMissing(data.message_template_id)
    THEN [exc |-> "KeyError", raised |-> TRUE, w |-> w]
    ELSE [exc |-> None, raised |-> FALSE,
          w |-> update_template_status(w, data).w]

\* update_status, lines 306-312.
legacy_update_status(w, data, name) ==
    CASE data.field = "message_template_status_update" ->
             legacy_update_template_status(w, data)
      [] data.field = "messages" ->
             legacy_update_message_status(w, data, name)
      [] OTHER -> [exc |-> None, raised |-> FALSE, w |-> w]

\* post, lines 271-282 and 288-299: the first change entry, when there is
\* one, handed to update_status.  data.get("entry", [{}])[0] and
\* .get("changes", [{}])[0] are {} when the key is absent and an IndexError
\* when the list is empty.
legacy_reconciled(w, data, name) ==
    CASE data.shape \in {"empty_entry", "empty_changes"} ->
             [exc |-> "IndexError", raised |-> TRUE, w |-> w]
      [] data.shape \in {"no_entry", "no_changes"} ->
             [exc |-> None, raised |-> FALSE, w |-> w]
      [] OTHER -> legacy_update_status(w, data, name)

\* post.  The extraction (lines 238-256) falls back to no messages and no
\* phone_id on any KeyError or IndexError.
legacy_post(w, data, env) ==
    LET messages == IF data.shape = "ok" THEN data.messages ELSE <<>>
        phone_id == IF data.shape = "ok" THEN data.phone_id ELSE None
        whatsapp_account == IF Truthy(phone_id)
                            THEN get_whatsapp_account(phone_id) ELSE None
    IN IF whatsapp_account = None /\ messages # <<>>
       THEN [http |-> 200, raised |-> FALSE, w |-> w,
             results |-> [i \in 1..Len(messages) |-> NotReached],
             reconciled |-> FALSE]
       ELSE IF messages # <<>>
       THEN [http |-> IF legacy_handle_messages(w, messages, env.media,
                             whatsapp_account, data.profile_name).raised
                      THEN 500 ELSE 200,
             raised |-> legacy_handle_messages(w, messages, env.media,
                            whatsapp_account, data.profile_name).raised,
             w |-> legacy_handle_messages(w, messages, env.media,
                       whatsapp_account, data.profile_name).w,
             results |-> legacy_handle_messages(w, messages, env.media,
                             whatsapp_account, data.profile_name).results,
             reconciled |-> FALSE]
       ELSE [http |-> http_status(legacy_reconciled(w, data, env.name).exc),
             raised |-> legacy_reconciled(w, data, env.name).raised,
             w |-> legacy_reconciled(w, data, env.name).w, results |-> <<>>,
             reconciled |-> TRUE]

\* get: the verification handshake.  frappe.db.get_value('WhatsApp Account',
\* verify_token, 'webhook_verify_token') reads the field of the Account whose
\* name is verify_token; frappe.throw answers 417.
get(hub_challenge, verify_token) ==
    LET named == { a \in Accounts : a.name = verify_token }
        webhook_verify_token ==
            IF named = {} THEN None
            ELSE (CHOOSE a \in named : TRUE).webhook_verify_token
    IN IF ~Truthy(webhook_verify_token)
       THEN [http |-> 417, raised |-> TRUE, echo |-> None]
       ELSE IF verify_token # webhook_verify_token
       THEN [http |-> 417, raised |-> TRUE, echo |-> None]
       ELSE [http |-> 200, raised |-> FALSE, echo |-> hub_challenge]

\* --------------------------------------------------------------- requests
\* The id the send API returns for its n-th accepted message.
OutId(n) == "wamid.out" \o ToString(n)

Observed(op, input, env, raised, http, sent, created, results) ==
    [http |-> http, raised |-> raised, sent |-> sent, created |-> created,
     env |-> env, results |-> results, echo |-> None, op |-> op,
     input |-> input,
     repeat |-> last.op = op /\ last.input = input /\ last.env = env]

\* The names of the rows a request added.
Added(w) == [i \in 1..(Len(w.msgs) - Len(msgs)) |-> Len(msgs) + i]

Commit(w) ==
    /\ msgs' = w.msgs
    /\ files' = w.files
    /\ profiles' = w.profiles
    /\ tmpl_status' = w.tmpl_status

\* The end of a send request: doc.save() has returned or raised (r).
saved(op, input, env, r) ==
    /\ Commit(r.w)
    /\ UNCHANGED inflight
    /\ api_next' = IF r.sent # <<>> /\ env.outcome = "ok"
                   THEN api_next + 1 ELSE api_next
    /\ last' = Observed(op, input, env, r.raised, http_status(r.exc), r.sent,
                        Added(r.w), <<>>)

\* send_message (whitelisted): a manual text or media send.
send_message(to, message, content_type, account, attach, env) ==
    /\ Len(msgs) < MaxRecords
    /\ api_next < MaxSends
    /\ saved("send_message",
             [to |-> to, content_type |-> content_type, attach |-> attach,
              message |-> message, account |-> account],
             env,
             insert(World(env.profile_ok),
                    [NewDoc EXCEPT
                        !.to = to, !.message = message, !.type = "Outgoing",
                        !.message_type = "Manual",
                        !.content_type = content_type,
                        !.whatsapp_account = account, !.attach = attach],
                    [id |-> OutId(api_next + 1), outcome |-> env.outcome]))

\* The input checks of send_template without the second one (line 288).
rejected_when_neither(template, template_json) ==
    ~(Truthy(template) \/ Truthy(template_json))

\* send_template (whitelisted), lines 285-289: the two input checks.
rejected(template, template_json) ==
    \/ ~(Truthy(template) \/ Truthy(template_json))
    \/ (Truthy(template) /\ Truthy(template_json))

\* send_template (whitelisted): a stored template or a custom JSON payload.
send_template(to, account, reference_doctype, reference_name, template, template_json, env) ==
    /\ Len(msgs) < MaxRecords
    /\ api_next < MaxSends
    /\ LET input == [reference_name |-> reference_name, to |-> to,
                     template |-> template,
                     reference_doctype |-> reference_doctype,
                     template_json |-> template_json, account |-> account]
       IN IF rejected(template, template_json)
          THEN /\ UNCHANGED <<msgs, files, profiles, tmpl_status, api_next,
                              inflight>>
               /\ last' = Observed("send_template", input, env, TRUE, 417,
                                   <<>>, <<>>, <<>>)
          ELSE saved("send_template", input, env,
                     insert(World(env.profile_ok),
                            [NewDoc EXCEPT
                                !.to = to, !.type = "Outgoing",
                                !.message_type = "Template",
                                !.reference_doctype = reference_doctype,
                                !.reference_name = reference_name,
                                !.content_type = "text",
                                !.whatsapp_account = account,
                                !.template = template,
                                !.template_json = template_json],
                            [id |-> OutId(api_next + 1),
                             outcome |-> env.outcome]))

\* A Template Message doc inserted by a caller that supplies the parameter
\* values in flags.custom_ref_doc.
insert_template(to, account, reference_doctype, reference_name, template, custom_ref_doc, env) ==
    /\ Len(msgs) < MaxRecords
    /\ api_next < MaxSends
    /\ saved("insert_template",
             [custom_ref_doc |-> custom_ref_doc,
              reference_name |-> reference_name, to |-> to,
              template |-> template, reference_doctype |-> reference_doctype,
              account |-> account],
             env,
             insert(World(env.profile_ok),
                    [NewDoc EXCEPT
                        !.to = to, !.type = "Outgoing",
                        !.message_type = "Template",
                        !.reference_doctype = reference_doctype,
                        !.reference_name = reference_name,
                        !.content_type = "text",
                        !.whatsapp_account = account,
                        !.template = template,
                        !.custom_ref_doc = custom_ref_doc],
                    [id |-> OutId(api_next + 1), outcome |-> env.outcome]))

\* The end of a webhook POST (r).
posted(data, env, r) ==
    /\ Commit(r.w)
    /\ UNCHANGED <<api_next, inflight>>
    /\ last' = Observed("post", data, env, r.raised, r.http, <<>>,
                        Added(r.w), r.results)

\* webhook, GET.
webhook_get(hub_challenge, verify_token) ==
    /\ UNCHANGED <<msgs, files, profiles, tmpl_status, api_next, inflight>>
    /\ last' = [Observed("get",
                         [hub_challenge |-> hub_challenge,
                          verify_token |-> verify_token],
                         <<>>, get(hub_challenge, verify_token).raised,
                         get(hub_challenge, verify_token).http,
                         <<>>, <<>>, <<>>)
                    EXCEPT !.echo = get(hub_challenge, verify_token).echo]

\* webhook, POST.
webhook_post(data, env) ==
    /\ Len(msgs) + Len(data.messages) <= MaxRecords
    /\ posted(data, env, post(World(env.profile_ok), data, env))

\* template_utils.webhook, POST, the database accepting every insert: the
\* request run with no other request between its steps (the steps are
\* taken one by one below, from legacy_post_begin on).
legacy_webhook_post(data, env) ==
    /\ Len(msgs) + Len(data.messages) <= MaxRecords
    /\ env.log_ok
    /\ env.profile_ok
    /\ Commit(legacy_post(World(env.profile_ok), data, env).w)
    /\ UNCHANGED <<api_next, inflight>>
    /\ last' = Observed("legacy_post", data, env,
                        legacy_post(World(env.profile_ok), data, env).raised,
                        legacy_post(World(env.profile_ok), data, env).http,
                        <<>>,
                        Added(legacy_post(World(env.profile_ok), data, env).w),
                        legacy_post(World(env.profile_ok), data, env).results)

\* ------------------------------------------- requests taken step by step
\* A request handler is not atomic: between two of its database writes, and
\* between the send API's answer and the first write, other requests run.
\* inflight holds what the request between two steps has in memory.
Idle ==
    [doc |-> NewDoc, sent |-> <<>>, created |-> <<>>, file_name |-> None,
     env |-> [name |-> 0, profile_ok |-> TRUE, log_ok |-> TRUE, media |-> <<>>],
     results |-> <<>>, op |-> "none", input |-> Payload, stage |-> "idle",
     index |-> 0]

\* send_message as far as notify's return (line 228): the send API has
\* answered with the message id, the doc is in memory only.
send_message_notified(to, message, content_type, account, attach, env) ==
    LET input == [to |-> to, content_type |-> content_type, attach |-> attach,
                  message |-> message, account |-> account]
        r == before_insert_send(
                 [NewDoc EXCEPT
                     !.to = to, !.message = message, !.type = "Outgoing",
                     !.message_type = "Manual",
                     !.content_type = content_type,
                     !.whatsapp_account = account, !.attach = attach],
                 [id |-> OutId(api_next + 1), outcome |-> env.outcome])
    IN /\ inflight.stage = "idle"
       /\ Len(msgs) < MaxRecords
       /\ api_next < MaxSends
       /\ ~r.raised
       /\ r.sent # <<>>
       /\ UNCHANGED <<msgs, files, profiles, tmpl_status>>
       /\ api_next' = api_next + 1
       /\ inflight' = [Idle EXCEPT !.stage = "sending",
                                   !.op = "send_message", !.input = input,
                                   !.env = env, !.doc = r.doc, !.sent = r.sent]
       /\ last' = Observed("send_message", input, env, FALSE, 0, r.sent,
                           <<>>, <<>>)

\* send_template as far as notify's return (line 208 -> 228), the same way.
send_template_notified(to, account, reference_doctype, reference_name, template, template_json, env) ==
    LET input == [reference_name |-> reference_name, to |-> to,
                  template |-> template,
                  reference_doctype |-> reference_doctype,
                  template_json |-> template_json, account |-> account]
        r == before_insert_send(
                 [NewDoc EXCEPT
                     !.to = to, !.type = "Outgoing",
                     !.message_type = "Template",
                     !.reference_doctype = reference_doctype,
                     !.reference_name = reference_name,
                     !.content_type = "text",
                     !.whatsapp_account = account,
                     !.template = template,
                     !.template_json = template_json],
                 [id |-> OutId(api_next + 1), outcome |-> env.outcome])
    IN /\ inflight.stage = "idle"
       /\ Len(msgs) < MaxRecords
       /\ api_next < MaxSends
       /\ ~rejected(template, template_json)
       /\ ~r.raised
       /\ r.sent # <<>>
       /\ UNCHANGED <<msgs, files, profiles, tmpl_status>>
       /\ api_next' = api_next + 1
       /\ inflight' = [Idle EXCEPT !.stage = "sending",
                                   !.op = "send_template", !.input = input,
                                   !.env = env, !.doc = r.doc, !.sent = r.sent]
       /\ last' = Observed("send_template", input, env, FALSE, 0, r.sent,
                           <<>>, <<>>)

\* doc.insert() of a Template doc with flags.custom_ref_doc as far as
\* notify's return (line 228), the same way.
insert_template_notified(to, account, reference_doctype, reference_name, template, custom_ref_doc, env) ==
    LET input == [custom_ref_doc |-> custom_ref_doc,
                  reference_name |-> reference_name, to |-> to,
                  template |-> template,
                  reference_doctype |-> reference_doctype, account |-> account]
        r == before_insert_send(
                 [NewDoc EXCEPT
                     !.to = to, !.type = "Outgoing",
                     !.message_type = "Template",
                     !.reference_doctype = reference_doctype,
                     !.reference_name = reference_name,
                     !.content_type = "text",
                     !.whatsapp_account = account,
                     !.template = template,
                     !.custom_ref_doc = custom_ref_doc],
                 [id |-> OutId(api_next + 1), outcome |-> env.outcome])
    IN /\ inflight.stage = "idle"
       /\ Len(msgs) < MaxRecords
       /\ api_next < MaxSends
       /\ ~r.raised
       /\ r.sent # <<>>
       /\ UNCHANGED <<msgs, files, profiles, tmpl_status>>
       /\ api_next' = api_next + 1
       /\ inflight' = [Idle EXCEPT !.stage = "sending",
                                   !.op = "insert_template", !.input = input,
                                   !.env = env, !.doc = r.doc, !.sent = r.sent]
       /\ last' = Observed("insert_template", input, env, FALSE, 0, r.sent,
                           <<>>, <<>>)

\* The rest of that send: before_insert's line 110, then the row is written
\* and doc.save() returns.
send_persisted ==
    LET w == World(inflight.env.profile_ok)
        r == insert_row(w, before_insert_profile(w,
                 [doc |-> inflight.doc, exc |-> None, raised |-> FALSE,
                  sent |-> inflight.sent, logs |-> 0]))
    IN /\ inflight.stage = "sending"
       /\ Commit(r.w)
       /\ UNCHANGED api_next
       /\ inflight' = Idle
       /\ last' = Observed(inflight.op, inflight.input, inflight.env, r.raised,
                           http_status(r.exc), r.sent, Added(r.w), <<>>)

\* Whether handle_incoming_message of a message gets to the first
\* requests.get of handle_media_message (line 59).
Fetches(message) ==
    /\ message.type \in MediaTypes
    /\ ~KeyMissing(message.from)
    /\ ~KeyMissing(message.id)
    /\ ~KeyMissing(message.media_id)

\* post, lines 299-301, from message i on and as far as the first message
\* that waits for the platform: index is its position, Len(messages) + 1
\* when the loop has ended.  h: message i handled.
RECURSIVE handle_until_fetch(_, _, _, _, _, _)
handled_until_fetch(h, messages, envs, whatsapp_account, sender_profile_name, i) ==
    IF h.raised
    THEN [raised |-> TRUE, w |-> h.w, results |-> <<Outcome(h)>>,
          index |-> Len(messages) + 1]
    ELSE [raised |-> handle_until_fetch(h.w, messages, envs, whatsapp_account,
                                        sender_profile_name, i + 1).raised,
          w |-> handle_until_fetch(h.w, messages, envs, whatsapp_account,
                                   sender_profile_name, i + 1).w,
          results |-> <<Outcome(h)>>
                      \o handle_until_fetch(h.w, messages, envs,
                                            whatsapp_account,
                                            sender_profile_name, i + 1).results,
          index |-> handle_until_fetch(h.w, messages, envs, whatsapp_account,
                                       sender_profile_name, i + 1).index]

handle_until_fetch(w, messages, envs, whatsapp_account, sender_profile_name, i) ==
    IF i > Len(messages)
    THEN [raised |-> FALSE, w |-> w, results |-> <<>>, index |-> i]
    ELSE IF Fetches(messages[i])
    THEN [raised |-> FALSE, w |-> w, results |-> <<>>, index |-> i]
    ELSE handled_until_fetch(
             handle_incoming_message(w, messages[i], whatsapp_account,
                                     sender_profile_name, envs[i]),
             messages, envs, whatsapp_account, sender_profile_name, i)

\* The end of one step of a webhook POST taken message by message.  r: the
\* loop as far as it got in this step; results, created: what the request's
\* earlier steps left.  The request waits at message r.index or has ended.
post_stepped(data, env, r, results, created) ==
    LET done == r.raised \/ r.index > Len(data.messages)
        so_far == results \o r.results
    IN /\ Commit(r.w)
       /\ UNCHANGED api_next
       /\ inflight' = IF done THEN Idle
                      ELSE [Idle EXCEPT !.stage = "fetching", !.op = "post",
                                        !.input = data, !.env = env,
                                        !.index = r.index,
                                        !.results = so_far,
                                        !.created = created \o Added(r.w)]
       /\ last' = Observed("post", data, env, r.raised,
                           IF ~done THEN 0 ELSE IF r.raised THEN 500 ELSE 200,
                           <<>>, created \o Added(r.w),
                           IF done
                           THEN so_far \o [k \in 1..(Len(data.messages)
                                                     - Len(so_far))
                                             |-> NotReached]
                           ELSE so_far)

\* A webhook POST of a batch as far as the first requests.get of a media
\* message (line 59): the rows of the messages before it are written.
post_begin(data, env) ==
    LET whatsapp_account == get_whatsapp_account(data.phone_id)
        r == handle_until_fetch(World(env.profile_ok), data.messages,
                                env.media, whatsapp_account,
                                data.profile_name, 1)
    IN /\ inflight.stage = "idle"
       /\ Len(msgs) + Len(data.messages) <= MaxRecords
       /\ env.log_ok
       /\ data.shape = "ok"
       /\ data.messages # <<>>
       /\ Truthy(data.phone_id)
       /\ whatsapp_account # None
       /\ ~r.raised
       /\ r.index <= Len(data.messages)
       /\ post_stepped(data, env, r, <<>>, <<>>)

\* That POST from the platform's answers to the two GETs of the message it
\* waits at: as far as message_doc.insert (line 90) when both answered 200,
\* else this message's handling ends and the loop goes on.
media_fetched ==
    LET data == inflight.input
        i == inflight.index
        message == data.messages[i]
        env == inflight.env.media[i]
        w == World(inflight.env.profile_ok)
        whatsapp_account == get_whatsapp_account(data.phone_id)
        is_reply == Truthy(message.context)
        reply_to_message_id == IF is_reply THEN message.context ELSE None
        file_name == env.hash \o "." \o file_extension(env.mime_type)
        fetched == /\ env.meta_status = 200
                   /\ env.mime_type # None
                   /\ env.content_status = 200
        ins == insert(w, media_message_doc(message, message.type,
                             whatsapp_account, data.profile_name, is_reply,
                             reply_to_message_id, file_name),
                      NoApi)
    IN /\ inflight.stage = "fetching"
       /\ IF fetched /\ ~ins.raised
          THEN /\ Commit(ins.w)
               /\ UNCHANGED api_next
               /\ inflight' = [inflight EXCEPT
                                  !.stage = "attaching",
                                  !.doc = ins.w.msgs[ins.name],
                                  !.file_name = file_name,
                                  !.created = @ \o <<ins.name>>]
               /\ last' = Observed("post", data, inflight.env, FALSE, 0, <<>>,
                                   inflight.created \o <<ins.name>>,
                                   inflight.results)
          ELSE post_stepped(data, inflight.env,
                   handled_until_fetch(
                       media_handled(
                           handle_media_message(w, message, message.type,
                               whatsapp_account, data.profile_name, is_reply,
                               reply_to_message_id, env)),
                       data.messages, inflight.env.media, whatsapp_account,
                       data.profile_name, i),
                   inflight.results, inflight.created)

\* handle_media_message, lines 92-107, run against the store as it is now:
\* file_doc.save(), then message_doc.save() of the doc read at insert.  When
\* another request has saved the row since, Document.save either raises
\* TimestampMismatchError (check_if_latest) or, the two `modified` stamps
\* being equal, its UPDATE writes every column of the doc in memory
\* (overwrite).
save_attach(w, doc, file_name, env, overwrite) ==
    LET filed == [w EXCEPT
                     !.files = Append(@, [file_name |-> file_name,
                                          attached_to_name |-> doc.name,
                                          file_url |-> "/files/" \o file_name])]
    IN IF ~env.file_ok THEN Except(w, <<doc.name>>, 1, 1, 0)
       ELSE IF w.msgs[doc.name] # doc /\ ~overwrite
       THEN Except(filed, <<doc.name>>, 1, 1, 1)
       ELSE Handled([filed EXCEPT
                        !.msgs[doc.name] =
                            [doc EXCEPT !.attach = "/files/" \o file_name]],
                    FALSE, <<doc.name>>, 1, 1, 1)

\* That POST from file_doc.save on: the attach of the message it waits at,
\* then the loop goes on.
media_attached(overwrite) ==
    LET data == inflight.input
        w == World(inflight.env.profile_ok)
        h == save_attach(w, inflight.doc, inflight.file_name,
                         inflight.env.media[inflight.index], overwrite)
    IN /\ inflight.stage = "attaching"
       /\ (w.msgs[inflight.doc.name] = inflight.doc) => overwrite
       /\ post_stepped(data, inflight.env,
              handled_until_fetch(media_handled(h), data.messages,
                  inflight.env.media, get_whatsapp_account(data.phone_id),
                  data.profile_name, inflight.index),
              inflight.results, inflight.created)

\* ---- template_utils.py's POST taken step by step
\* An exception inside handle_media_message (h): the handler at line 110
\* logs it and returns.
legacy_media_logged(h) ==
    IF h.raised THEN [h EXCEPT !.raised = FALSE, !.logged = 1] ELSE h

\* post, lines 284-286, from message i on and as far as the first message
\* that waits for the platform: a media message that gets to the first
\* requests.get of handle_media_message (line 59), its context read without
\* a KeyError.  h: message i handled.
RECURSIVE legacy_handle_until_fetch(_, _, _, _, _, _)
legacy_handled_until_fetch(h, messages, envs, whatsapp_account, sender_profile_name, i) ==
    IF h.raised
    THEN [raised |-> TRUE, w |-> h.w, results |-> <<Outcome(h)>>,
          index |-> Len(messages) + 1]
    ELSE [raised |-> legacy_handle_until_fetch(h.w, messages, envs,
                         whatsapp_account, sender_profile_name, i + 1).raised,
          w |-> legacy_handle_until_fetch(h.w, messages, envs,
                    whatsapp_account, sender_profile_name, i + 1).w,
          results |-> <<Outcome(h)>>
                      \o legacy_handle_until_fetch(h.w, messages, envs,
                             whatsapp_account, sender_profile_name,
                             i + 1).results,
          index |-> legacy_handle_until_fetch(h.w, messages, envs,
                        whatsapp_account, sender_profile_name, i + 1).index]

legacy_handle_until_fetch(w, messages, envs, whatsapp_account, sender_profile_name, i) ==
    IF i > Len(messages)
    THEN [raised |-> FALSE, w |-> w, results |-> <<>>, index |-> i]
    ELSE IF messages[i].context # Hollow /\ Fetches(messages[i])
    THEN [raised |-> FALSE, w |-> w, results |-> <<>>, index |-> i]
    ELSE legacy_handled_until_fetch(
             legacy_handle_incoming_message(w, messages[i], whatsapp_account,
                                            sender_profile_name, envs[i]),
             messages, envs, whatsapp_account, sender_profile_name, i)

\* The end of one step of that POST.  r: the loop as far as it got in this
\* step; results, created: what the request's earlier steps left.
legacy_post_stepped(data, env, r, results, created) ==
    LET done == r.raised \/ r.index > Len(data.messages)
        so_far == results \o r.results
    IN /\ Commit(r.w)
       /\ UNCHANGED api_next
       /\ inflight' = IF done THEN Idle
                      ELSE [Idle EXCEPT !.stage = "legacy_fetching",
                                        !.op = "legacy_post",
                                        !.input = data, !.env = env,
                                        !.index = r.index,
                                        !.results = so_far,
                                        !.created = created \o Added(r.w)]
       /\ last' = Observed("legacy_post", data, env, r.raised,
                           IF ~done THEN 0 ELSE IF r.raised THEN 500 ELSE 200,
                           <<>>, created \o Added(r.w),
                           IF done
                           THEN so_far \o [k \in 1..(Len(data.messages)
                                                     - Len(so_far))
                                             |-> NotReached]
                           ELSE so_far)

\* The POST of a batch as far as the first requests.get of a media message
\* (line 59): the rows of the messages before it are written.
legacy_post_begin(data, env) ==
    LET whatsapp_account == get_whatsapp_account(data.phone_id)
        r == legacy_handle_until_fetch(World(env.profile_ok), data.messages,
                                       env.media, whatsapp_account,
                                       data.profile_name, 1)
    IN /\ inflight.stage = "idle"
       /\ Len(msgs) + Len(data.messages) <= MaxRecords
       /\ env.log_ok
       /\ env.profile_ok
       /\ data.shape = "ok"
       /\ data.messages # <<>>
       /\ Truthy(data.phone_id)
       /\ whatsapp_account # None
       /\ ~r.raised
       /\ r.index <= Len(data.messages)
       /\ legacy_post_stepped(data, env, r, <<>>, <<>>)

\* That POST from the platform's answers to the two GETs of the message it
\* waits at: as far as message_doc.insert (line 90) when both answered 200,
\* else this message's handling ends and the loop goes on.
legacy_media_fetched ==
    LET data == inflight.input
        i == inflight.index
        message == data.messages[i]
        env == inflight.env.media[i]
        w == World(inflight.env.profile_ok)
        whatsapp_account == get_whatsapp_account(data.phone_id)
        is_reply == message.context \notin {Absent, Empty}
        reply_to_message_id == IF is_reply THEN message.context ELSE None
        file_name == env.hash \o "." \o file_extension(env.mime_type)
        fetched == /\ env.meta_status = 200
                   /\ env.mime_type # None
                   /\ env.content_status = 200
        ins == insert(w, media_message_doc(message, message.type,
                             whatsapp_account, data.profile_name, is_reply,
                             reply_to_message_id, file_name),
                      NoApi)
    IN /\ inflight.stage = "legacy_fetching"
       /\ IF fetched /\ ~ins.raised
          THEN /\ Commit(ins.w)
               /\ UNCHANGED api_next
               /\ inflight' = [inflight EXCEPT
                                  !.stage = "legacy_attaching",
                                  !.doc = ins.w.msgs[ins.name],
                                  !.file_name = file_name,
                                  !.created = @ \o <<ins.name>>]
               /\ last' = Observed("legacy_post", data, inflight.env, FALSE,
                                   0, <<>>, inflight.created \o <<ins.name>>,
                                   inflight.results)
          ELSE legacy_post_stepped(data, inflight.env,
                   legacy_handled_until_fetch(
                       legacy_handle_media_message(w, message, message.type,
                           whatsapp_account, data.profile_name, is_reply,
                           reply_to_message_id, env),
                       data.messages, inflight.env.media, whatsapp_account,
                       data.profile_name, i),
                   inflight.results, inflight.created)

\* That POST from file_doc.save on (lines 92-107): the attach of the message
\* it waits at, then the loop goes on.
legacy_media_attached(overwrite) ==
    LET data == inflight.input
        w == World(inflight.env.profile_ok)
        h == save_attach(w, inflight.doc, inflight.file_name,
                         inflight.env.media[inflight.index], overwrite)
    IN /\ inflight.stage = "legacy_attaching"
       /\ (w.msgs[inflight.doc.name] = inflight.doc) => overwrite
       /\ legacy_post_stepped(data, inflight.env,
              legacy_handled_until_fetch(legacy_media_logged(h),
                  data.messages, inflight.env.media,
                  get_whatsapp_account(data.phone_id), data.profile_name,
                  inflight.index),
              inflight.results, inflight.created)

Init ==
    /\ msgs = <<>>
    /\ files = <<>>
    /\ profiles = {}
    /\ tmpl_status = [t \in TemplateIds |-> "PENDING"]
    /\ api_next = 0
    /\ last = [http |-> 200, raised |-> FALSE, sent |-> <<>>,
               created |-> <<>>, env |-> <<>>, results |-> <<>>,
               echo |-> None, op |-> "init", input |-> <<>>, repeat |-> FALSE]
    /\ inflight = Idle

\* ------------------------------------------------------- the environment
\* What frappe.db.get_value may return for a status event: a row carrying
\* the event's id, 0 when there is none.
Names(data) ==
    IF data.statuses # <<>>
       /\ Matches(World(TRUE), data.statuses[1].id) # {}
    THEN Matches(World(TRUE), data.statuses[1].id)
    ELSE {0}

SendEnvs ==
    [profile_ok : {TRUE}, outcome : {"ok", "error_envelope", "error"}]

PostEnv(data, media, name, log_ok) ==
    [name |-> name, profile_ok |-> TRUE, log_ok |-> log_ok, media |-> media]

\* ---- outbound requests
SendMessage ==
    \E to \in {"+15550001"}, content_type \in {"text", "image"},
       account \in {"acc1", "nope"}, attach \in {None, "/files/a.png"},
       env \in SendEnvs :
        send_message(to, "hi", content_type, account, attach, env)

\* The (reference_doctype, reference_name) pairs of the template sends.
References ==
    { <<None, None>>, <<"Sales Invoice", None>>, <<"Sales Invoice", "INV-42">> }

\* The (account, reference, template, template_json) of the template sends.
TemplateIntents ==
    { <<"acc1", <<None, None>>, template, template_json>> :
        template \in {None, "", "order_update", "promo", "ghost"},
        template_json \in {None, "{text}", "{interactive}", "not json"} }
    \cup { <<"acc1", reference, "order_update", None>> :
             reference \in References }
    \cup { <<"nope", <<"Sales Invoice", "INV-42">>, template, None>> :
             template \in {"order_update", "promo", "ghost"} }
    \cup { <<"nope", <<None, None>>, None, "{interactive}">> }

SendTemplate ==
    \E to \in {"+15550001"}, intent \in TemplateIntents, env \in SendEnvs :
        send_template(to, intent[1], intent[2][1], intent[2][2], intent[3],
                      intent[4], env)

\* The value maps a caller puts in flags.custom_ref_doc.
CustomValues ==
    { <<<<"customer", "Jos" \o chr(233) \o " \"B\"">>, <<"name", "SO-7">>>>,
      <<<<"name", "SO" \o chr(8) \o chr(1) \o "7">>>> }

InsertTemplate ==
    \E custom_ref_doc \in CustomValues \cup {<<>>} :
        insert_template("+15550001", "acc1", "Sales Invoice", "INV-42",
                        "order_update",
                        custom_ref_doc, [profile_ok |-> TRUE, outcome |-> "ok"])

NextSend == SendMessage \/ SendTemplate \/ InsertTemplate

SpecSend == Init /\ [][NextSend]_vars

\* ---- raw messages
InboundIds == {"wamid.in1", "wamid.in2"}

TextMessage(id, body) ==
    [RawMessage EXCEPT !.type = "text", !.from = "15550001", !.id = id,
                       !.text = body]

MediaMessage(id, type, caption) ==
    [RawMessage EXCEPT !.type = type, !.from = "15550001", !.id = id,
                       !.media_id = "media1", !.caption = caption]

\* ---- status events against sent messages
StatusEntries ==
    [status : {"sent", "delivered", "read", "failed"},
     id : {OutId(1), OutId(2), "wamid.unknown"},
     conversation : {None, "conv1"}, timestamp : {"1700000000"}]

StatusPayloads ==
    { [Payload EXCEPT !.statuses = <<s>>] : s \in StatusEntries }
    \cup { [Payload EXCEPT !.statuses = <<s>>, !.phone_id = None] :
            s \in { e \in StatusEntries : e.id = OutId(1) /\ e.status = "read" } }
    \cup { [Payload EXCEPT !.statuses = <<s>>, !.phone_id = "pn9",
                           !.messages = <<TextMessage("wamid.in1", "hello")>>] :
            s \in { e \in StatusEntries : e.id = OutId(1) /\ e.status = "read" } }
    \cup { [Payload EXCEPT !.statuses = <<s, t>>] :
            s \in { e \in StatusEntries :
                      /\ e.id \in {OutId(1), "wamid.unknown"}
                      /\ e.status = "delivered" /\ e.conversation = None },
            t \in { e \in StatusEntries :
                      /\ e.id = OutId(2)
                      /\ e.status = "read" /\ e.conversation = "conv1" } }
    \cup { [Payload EXCEPT !.field = "message_template_status_update",
                           !.event = "APPROVED", !.message_template_id = t] :
            t \in {"t1", "t9"} }
    \cup { [Payload EXCEPT !.field = "message_template_status_update",
                           !.message_template_id = "t1"] }
    \cup { [Payload EXCEPT !.statuses = <<[s EXCEPT !.id = Absent]>>] :
            s \in { e \in StatusEntries : e.id = OutId(1) /\ e.status = "read" } }

Sent ==
    \/ send_message("+15550001", "hi", "text", "acc1", None,
                    [profile_ok |-> TRUE, outcome |-> "ok"])
    \/ send_template("+15550001", "acc1", None, None, "promo", None,
                     [profile_ok |-> TRUE, outcome |-> "ok"])

PostStatus ==
    \E data \in StatusPayloads : \E name \in Names(data) :
        webhook_post(data, PostEnv(data, <<>>, name, TRUE))

NextStatus == Sent \/ PostStatus

SpecStatus == Init /\ [][NextStatus]_vars

\* ---- inbound batches

\* A message with what the platform answers while it is handled.
Items ==
    { [message |-> TextMessage(id, body), env |-> MediaEnv] :
        id \in InboundIds, body \in {"hello", Absent} }
    \cup
    { [message |-> MediaMessage("wamid.in1", "image", caption),
       env |-> [MediaEnv EXCEPT !.meta_status = e[1],
                                !.content_status = e[2],
                                !.file_ok = e[3]]] :
        caption \in {None, "look"},
        e \in {<<404, 200, TRUE>>, <<200, 404, TRUE>>, <<200, 200, FALSE>>,
               <<200, 200, TRUE>>} }

Batches == UNION { [1..n -> Items] : n \in 1..MaxBatch }

\* The Notification Log insert failing ends the request before the batch is
\* read, so that outcome is drawn for the batches of one message only.
PostMessages ==
    \E batch \in Batches :
    \E log_ok \in (IF Len(batch) = 1 THEN BOOLEAN ELSE {TRUE}) :
        webhook_post(
            [Payload EXCEPT !.messages = [i \in DOMAIN batch |-> batch[i].message],
                            !.profile_name = "Ann"],
            PostEnv(0, [i \in DOMAIN batch |-> batch[i].env], 0, log_ok))

NextInbound == PostMessages

SpecInbound == Init /\ [][NextInbound]_vars

\* ---- the webhook endpoint: handshakes, one message of every kind, broken
\* envelopes
Contacts ==
    <<[formatted_name |-> "Bob", wa_id |-> "15550003"],
      [formatted_name |-> "Eve", wa_id |-> Absent],
      [formatted_name |-> None, wa_id |-> "15550004"]>>

\* The contacts arrays of the contacts messages: the one above, its two
\* named contacts alone, and a single contact.
ContactLists ==
    { Contacts, SubSeq(Contacts, 1, 2), SubSeq(Contacts, 1, 1) }

Variants ==
    { TextMessage(id, "hello") : id \in InboundIds }
    \cup { TextMessage("wamid.in1", None) }
    \cup { [RawMessage EXCEPT !.type = "reaction", !.from = "15550001",
                              !.id = "wamid.in1", !.emoji = ":+1:",
                              !.reaction_to = "wamid.out1", !.context = c] :
            c \in {Absent, "wamid.ctx"} }
    \cup { [RawMessage EXCEPT !.type = "interactive", !.from = "15550001",
                              !.id = "wamid.in1", !.has_interactive = TRUE,
                              !.button_reply = r[1], !.list_reply = r[2],
                              !.nfm_reply = r[3]] :
            r \in {<<Absent, Absent, Absent>>, <<"Yes", Absent, Absent>>,
                   <<"", Absent, Absent>>, <<"None", Absent, Absent>>,
                   <<None, "Item 1", Absent>>, <<Absent, "Item 1", Absent>>,
                   <<Absent, Absent, "{}">>, <<"Yes", "Item 1", "{}">>} }
    \cup { [RawMessage EXCEPT !.type = "location", !.from = "15550001",
                              !.id = "wamid.in1", !.has_location = TRUE,
                              !.has_latitude = c[1],
                              !.latitude = c[2], !.has_longitude = c[3],
                              !.longitude = c[4], !.loc_name = c[5]] :
            c \in {<<TRUE, 52, TRUE, 13, "Cafe">>, <<TRUE, 0, TRUE, 13, Absent>>,
                   <<FALSE, 0, TRUE, 13, Absent>>} }
    \cup { [RawMessage EXCEPT !.type = t, !.from = "15550001",
                              !.id = "wamid.in1", !.has_contacts = TRUE,
                              !.contacts = contacts] :
            t \in {"contacts", "contact"}, contacts \in ContactLists }
    \cup { [RawMessage EXCEPT !.type = "order", !.from = "15550001",
                              !.id = "wamid.in1"],
           MediaMessage("wamid.in1", "image", None) }

BadShapes == {"no_entry", "empty_entry", "no_changes", "empty_changes"}

Challenges == {"1158201444", "77"}

Tokens == {"tok1", "tok2", "acc1", "bad"}

Handshake ==
    \E hub_challenge \in Challenges, verify_token \in Tokens :
        webhook_get(hub_challenge, verify_token)

PostOne ==
    \E message \in Variants, log_ok \in BOOLEAN :
        webhook_post([Payload EXCEPT !.messages = <<message>>,
                                     !.profile_name = "Ann"],
                     PostEnv(0, <<MediaEnv>>, 0, log_ok))

\* One message while tabWhatsApp Profiles refuses inserts.
PostWithoutProfiles ==
    \E message \in Variants :
        webhook_post([Payload EXCEPT !.messages = <<message>>,
                                     !.profile_name = "Ann"],
                     [PostEnv(0, <<MediaEnv>>, 0, TRUE)
                         EXCEPT !.profile_ok = FALSE])

PostEnvelope ==
    \E shape \in BadShapes :
        webhook_post([Payload EXCEPT !.shape = shape],
                     PostEnv(0, <<>>, 0, TRUE))

NextWebhook == Handshake \/ PostOne \/ PostWithoutProfiles \/ PostEnvelope

SpecWebhook == Init /\ [][NextWebhook]_vars

\* ---- the endpoint of template_utils.py
LegacyMessages ==
    Variants
    \cup { [RawMessage EXCEPT !.type = "location", !.from = "15550001",
                              !.id = "wamid.in1"],
           [TextMessage("wamid.in1", "hello") EXCEPT !.context = Hollow],
           [TextMessage("wamid.in1", "hello") EXCEPT !.context = Empty],
           [MediaMessage("wamid.in1", "image", None) EXCEPT !.context = Empty],
           [TextMessage("wamid.in1", "hello") EXCEPT !.context = None],
           [RawMessage EXCEPT !.type = "contacts", !.from = "15550001",
                              !.id = "wamid.in1", !.has_contacts = TRUE],
           [RawMessage EXCEPT !.type = "from", !.from = "15550001",
                              !.id = "wamid.in1"],
           TextMessage("wamid.in1", Absent) }

LegacyMedia ==
    { MediaEnv, [MediaEnv EXCEPT !.file_ok = FALSE],
      [MediaEnv EXCEPT !.mime_type = None] }

LegacyPostOne ==
    \E message \in LegacyMessages :
        legacy_webhook_post([Payload EXCEPT !.messages = <<message>>,
                                            !.profile_name = "Ann"],
                            PostEnv(0, <<MediaEnv>>, 0, TRUE))

LegacyPostBatch ==
    \E media \in LegacyMedia, body \in {"hello", Absent} :
        legacy_webhook_post(
            [Payload EXCEPT
                !.messages = <<MediaMessage("wamid.in1", "image", None),
                               TextMessage("wamid.in2", body)>>,
                !.profile_name = "Ann"],
            PostEnv(0, <<media, MediaEnv>>, 0, TRUE))

LegacyStatus ==
    { [Payload EXCEPT !.statuses = <<s>>] :
        s \in { e \in StatusEntries :
                  /\ e.id \in {OutId(1), "wamid.unknown"}
                  /\ e.status = "read" /\ e.conversation = "conv1" } }
    \cup { [Payload EXCEPT !.field = "message_template_status_update",
                           !.event = event, !.message_template_id = "t1"] :
            event \in {Absent, "APPROVED"} }
    \cup { [Payload EXCEPT
               !.statuses = <<[status |-> "read", id |-> Absent,
                               conversation |-> None,
                               timestamp |-> "1700000000"]>>],
           Payload, [Payload EXCEPT !.empty_statuses = TRUE] }

LegacyPostStatus ==
    \E data \in LegacyStatus : \E name \in Names(data) :
        legacy_webhook_post(data, PostEnv(data, <<>>, name, TRUE))

LegacyPostEnvelope ==
    \E shape \in BadShapes :
        legacy_webhook_post([Payload EXCEPT !.shape = shape],
                            PostEnv(0, <<>>, 0, TRUE))

NextLegacy ==
    \/ Sent
    \/ LegacyPostOne \/ LegacyPostBatch
    \/ LegacyPostStatus \/ LegacyPostEnvelope

SpecLegacy == Init /\ [][NextLegacy]_vars

\* ---- everything
\* ---- a send and a media POST interleaved with status events
ConcurrentStatus ==
    { [Payload EXCEPT !.statuses = <<s>>] :
        s \in [status : {"delivered", "read"},
               id : {OutId(1), "wamid.in1", "wamid.in2"},
               conversation : {None, "conv1"}, timestamp : {"1700000000"}] }

\* The batches taken message by message.
ConcurrentBatches ==
    { <<MediaMessage("wamid.in1", "image", None)>>,
      <<TextMessage("wamid.in2", "hello"),
        MediaMessage("wamid.in1", "image", None)>> }

ConcurrentMedia ==
    { [MediaEnv EXCEPT !.file_ok = file_ok, !.content_status = status] :
        file_ok \in BOOLEAN, status \in {200, 404} }

SendBegin ==
    send_message_notified("+15550001", "hi", "text", "acc1", None,
                          [profile_ok |-> TRUE, outcome |-> "ok"])

TemplateBegin ==
    send_template_notified("+15550001", "acc1", "Sales Invoice", "INV-42",
                           "order_update", None,
                           [profile_ok |-> TRUE, outcome |-> "ok"])

\* The inserts with flags.custom_ref_doc taken step by step: a value map,
\* an empty one ({}), and a template without parameters.
InsertBegin ==
    \E intent \in { <<"order_update", custom_ref_doc>> :
                       custom_ref_doc \in CustomValues \cup {<<>>} }
                   \cup { <<"promo", <<>>>> } :
        insert_template_notified("+15550001", "acc1", "Sales Invoice",
                                 "INV-42", intent[1], intent[2],
                                 [profile_ok |-> TRUE, outcome |-> "ok"])

SendFinish == send_persisted

BatchBegin ==
    \E messages \in ConcurrentBatches, media \in ConcurrentMedia :
        post_begin([Payload EXCEPT !.messages = messages,
                                   !.profile_name = "Ann"],
                   PostEnv(0, [i \in 1..Len(messages) |-> media], 0, TRUE))

MediaFetched == media_fetched

MediaFinish == \E overwrite \in BOOLEAN : media_attached(overwrite)

StatusBetween ==
    \E data \in ConcurrentStatus : \E name \in Names(data) :
        webhook_post(data, PostEnv(data, <<>>, name, TRUE))

NextConcurrent ==
    \/ SendBegin \/ TemplateBegin \/ InsertBegin \/ SendFinish
    \/ BatchBegin \/ MediaFetched \/ MediaFinish
    \/ StatusBetween

SpecConcurrent == Init /\ [][NextConcurrent]_vars

\* ---- the endpoint of template_utils.py, a media POST interleaved with
\* status events
LegacyBatchBegin ==
    \E messages \in ConcurrentBatches, media \in ConcurrentMedia :
        legacy_post_begin([Payload EXCEPT !.messages = messages,
                                          !.profile_name = "Ann"],
                          PostEnv(0, [i \in 1..Len(messages) |-> media], 0,
                                  TRUE))

LegacyMediaFinish == \E overwrite \in BOOLEAN : legacy_media_attached(overwrite)

LegacyStatusBetween ==
    \E data \in ConcurrentStatus : \E name \in Names(data) :
        legacy_webhook_post(data, PostEnv(data, <<>>, name, TRUE))

NextLegacyConcurrent ==
    \/ LegacyBatchBegin \/ legacy_media_fetched \/ LegacyMediaFinish
    \/ LegacyStatusBetween

SpecLegacyConcurrent == Init /\ [][NextLegacyConcurrent]_vars

Next ==
    \/ NextSend \/ NextStatus \/ NextInbound \/ NextWebhook \/ NextLegacy
    \/ NextConcurrent \/ NextLegacyConcurrent

Spec == Init /\ [][Next]_vars

\* ================================================================ claims
\* What the last request was.
WasSend(l) == l.op \in {"send_message", "send_template"}

\* The send API was POSTed to and accepted / refused the message.
PostSucceeded(l) == WasSend(l) /\ l.sent # <<>> /\ l.env.outcome = "ok"
PostFailed(l) == WasSend(l) /\ l.sent # <<>> /\ l.env.outcome # "ok"

\* A webhook POST that carried one `messages` status event and got as far as
\* reconciling it.
WasStatusEvent(l) ==
    /\ l.op = "post"
    /\ l.env.log_ok
    /\ l.input.shape = "ok"
    /\ l.input.field = "messages"
    /\ l.input.messages = <<>>
    /\ l.input.statuses # <<>>

\* A webhook POST whose batch reached the per-message loop, the database
\* accepting what is written.
WasBatch(l) ==
    /\ l.op = "post"
    /\ l.env.log_ok
    /\ l.env.profile_ok
    /\ l.input.shape = "ok"
    /\ l.input.messages # <<>>
    /\ get_whatsapp_account(l.input.phone_id) # None

Unchanged == UNCHANGED <<msgs, files, profiles, tmpl_status, api_next>>

\* ---- C1
Rank(status) ==
    CASE status = "Success" -> 1
      [] status = "sent" -> 2
      [] status = "delivered" -> 3
      [] status = "read" -> 4
      [] OTHER -> 0

\* C1: the status of a stored Message never moves backwards in the order
\* Success -> sent -> delivered -> read, whatever status events are reconciled.
C1_StatusNeverMovesBackwards ==
    [][\A i \in 1..Len(msgs) :
          (Rank(msgs[i].status) > 0 /\ Rank(msgs'[i].status) > 0)
              => Rank(msgs'[i].status) >= Rank(msgs[i].status)]_vars

\* ---- C2
\* C2: whenever the send API POST succeeds, whatever the intent, the request
\* stores one outbound record whose message_id is the id the API returned and
\* whose status is Success.
C2_SuccessfulSendStoresIdAndSuccess ==
    PostSucceeded(last) =>
        /\ Len(last.created) = 1
        /\ msgs[last.created[1]].message_id = OutId(api_next)
        /\ msgs[last.created[1]].status = "Success"

\* ---- C3
\* C3: whenever the send API call fails, the request still stores the
\* outbound record, with status Failed.
C3_FailedSendStoresFailedRecord ==
    PostFailed(last) =>
        /\ Len(last.created) = 1
        /\ msgs[last.created[1]].status = "Failed"

\* ---- C4
GoodText(message) ==
    /\ message.type = "text"
    /\ ~KeyMissing(message.from)
    /\ ~KeyMissing(message.id)
    /\ ~KeyMissing(message.text)

\* C4: in a batch every message is handled, in array order, whatever happened
\* to the messages before it: a well-formed text message is stored, and no
\* exception leaves handle_incoming_message.
C4_BatchFailuresAreIsolated ==
    WasBatch(last) =>
        /\ ~last.raised
        /\ \A j \in DOMAIN last.results :
              /\ last.results[j].reached
              /\ ~last.results[j].raised
              /\ GoodText(last.input.messages[j])
                    => Len(last.results[j].created) = 1

\* ---- C5
Reclassified(l) ==
    /\ l.op = "send_template"
    /\ ~Truthy(l.input.template)
    /\ JsonValid(l.input.template_json)
    /\ JsonType(l.input.template_json) \in {"text", "location", "contacts"}

\* C5: a send_template call with a valid custom template_json of type text,
\* location or contacts POSTs to the send API exactly once, and, the API
\* accepting it, stores the outbound record with the returned message id.
C5_ReclassifiedCustomSendsOnce ==
    Reclassified(last) =>
        /\ Len(last.sent) = 1
        /\ last.env.outcome = "ok" =>
              /\ Len(last.created) = 1
              /\ msgs[last.created[1]].message_id = OutId(api_next)

\* ---- C6
\* C6: reconciling a `messages` status event whose id matches no stored
\* Message creates and modifies nothing, and no exception escapes.
C6_UnknownIdIsNoOp ==
    [][(/\ WasStatusEvent(last')
        /\ ~KeyMissing(last'.input.statuses[1].id)
        /\ Matches(World(TRUE), last'.input.statuses[1].id) = {})
          => (Unchanged /\ ~last'.raised /\ last'.created = <<>>)]_vars

C6_Witness ==
    /\ WasStatusEvent(last)
    /\ ~KeyMissing(last.input.statuses[1].id)
    /\ Matches(World(TRUE), last.input.statuses[1].id) = {}
    /\ Len(msgs) = MaxRecords
    /\ ~last.raised

\* ---- C7
DeliveredToKnown(l) ==
    /\ WasStatusEvent(l)
    /\ l.input.statuses[1].status = "delivered"
    /\ l.env.name # 0

\* C7: applying to a known Message the `delivered` event that was just
\* applied to it leaves the stored records (status, delivered_at,
\* conversation_id) as the first application left them, and raises nothing.
C7_DeliveredTwiceIsIdempotent ==
    [][(/\ DeliveredToKnown(last)
        /\ ~last.raised
        /\ last'.op = "post"
        /\ last'.input = last.input
        /\ last'.env = last.env)
          => (Unchanged /\ ~last'.raised)]_vars

C7_Witness ==
    /\ DeliveredToKnown(last)
    /\ last.repeat
    /\ ~last.raised
    /\ msgs[last.env.name].status = "delivered"
    /\ msgs[last.env.name].conversation_id = "conv1"
    /\ msgs[last.env.name].delivered_at = None

\* ---- C8
\* C8: send_template raises, POSTs nothing and stores nothing unless exactly
\* one of template and template_json is supplied.
C8_TemplateXorJson ==
    [][(/\ last'.op = "send_template"
        /\ Truthy(last'.input.template) = Truthy(last'.input.template_json))
          => (last'.raised /\ last'.sent = <<>> /\ Unchanged)]_vars

C8_Witness ==
    /\ last.op = "send_template"
    /\ Truthy(last.input.template)
    /\ Truthy(last.input.template_json)
    /\ last.raised
    /\ last.sent = <<>>
    /\ Len(msgs) > 0

\* ---- C9
MetadataFailed(l, i) ==
    /\ l.input.messages[i].type \in MediaTypes
    /\ l.results[i].reached
    /\ l.results[i].meta_gets = 1
    /\ l.env.media[i].meta_status # 200

\* The rows a request stored for its i-th message.
Stored(l, i) == [k \in 1..Len(l.results[i].created) |-> msgs[l.results[i].created[k]]]

\* C9: when the metadata GET of a media message answers non-200, no content
\* GET is made, no File is written, no attachment URL is set and nothing is
\* raised; a well-formed text message of the same batch is stored as text.
C9_MetadataFailureStopsTheFetch ==
    WasBatch(last) =>
        \A i \in DOMAIN last.results :
            MetadataFailed(last, i) =>
                /\ last.results[i].content_gets = 0
                /\ last.results[i].file_saves = 0
                /\ ~last.results[i].raised
                /\ \A f \in 1..Len(files) :
                      files[f].attached_to_name \notin
                          { last.results[i].created[k] :
                              k \in 1..Len(last.results[i].created) }
                /\ \A k \in 1..Len(Stored(last, i)) :
                      Stored(last, i)[k].attach = None
                /\ \A j \in DOMAIN last.results :
                      (GoodText(last.input.messages[j]) /\ ~last.raised)
                          => /\ Len(Stored(last, j)) = 1
                             /\ Stored(last, j)[1].content_type = "text"
                             /\ Stored(last, j)[1].message
                                    = last.input.messages[j].text

C9_Witness ==
    /\ WasBatch(last)
    /\ Len(last.results) = 2
    /\ \E i, j \in DOMAIN last.results :
          /\ MetadataFailed(last, i)
          /\ last.results[i].content_gets = 0
          /\ GoodText(last.input.messages[j])
          /\ Len(Stored(last, j)) = 1

\* ---- C10
FetchFailed(l, i) ==
    /\ l.input.messages[i].type \in MediaTypes
    /\ ~KeyMissing(l.input.messages[i].media_id)
    /\ l.results[i].reached
    /\ \/ l.env.media[i].meta_status # 200
       \/ l.env.media[i].content_status # 200
       \/ ~l.env.media[i].file_ok

\* C10: when the media fetch fails at any step, a Message record of that
\* message exists afterwards in its placeholder state: the body is the
\* caption or a file-path placeholder and the attachment URL is empty.
C10_FailedFetchLeavesPlaceholder ==
    WasBatch(last) =>
        \A i \in DOMAIN last.results :
            FetchFailed(last, i) =>
                /\ Len(Stored(last, i)) = 1
                /\ Stored(last, i)[1].attach = None
                /\ Stored(last, i)[1].message # None
                /\ Truthy(last.input.messages[i].caption)
                      => Stored(last, i)[1].message
                             = last.input.messages[i].caption

\* ---- C11
\* The text of the reply an interactive message carries: that of the first
\* of button_reply, list_reply and nfm_reply it has.
ReplyText(message) ==
    CASE message.button_reply # Absent -> message.button_reply
      [] message.list_reply # Absent -> message.list_reply
      [] message.nfm_reply # Absent -> message.nfm_reply
      [] OTHER -> Absent

\* A raw message every key of which is there, with the platform answering
\* 200 to its media fetches: one that classifies.
Classifiable(message, env) ==
    /\ ~KeyMissing(message.from)
    /\ ~KeyMissing(message.id)
    /\ CASE message.type = "text" -> ~KeyMissing(message.text)
         [] message.type = "reaction" ->
                ~KeyMissing(message.emoji) /\ ~KeyMissing(message.reaction_to)
         [] message.type = "interactive" ->
                /\ message.has_interactive
                /\ Truthy(ReplyText(message))
         [] message.type = "contact" -> message.has_contacts
         [] message.type = "button" -> ~KeyMissing(message.button)
         [] message.type \in MediaTypes ->
                /\ ~KeyMissing(message.media_id)
                /\ env.meta_status = 200
                /\ env.mime_type # None
                /\ env.content_status = 200
                /\ env.file_ok
         [] OTHER -> TRUE

\* C11: a webhook POST leaves every Message record that was there as it was,
\* and every message of it that classifies adds exactly one record carrying
\* its id, also when the same payload was delivered just before.
C11_OneNewRecordPerMessage ==
    [][WasBatch(last') =>
          /\ Len(msgs') >= Len(msgs)
          /\ \A i \in 1..Len(msgs) : msgs'[i] = msgs[i]
          /\ \A j \in DOMAIN last'.results :
                (/\ last'.results[j].reached
                 /\ Classifiable(last'.input.messages[j], last'.env.media[j]))
                  => /\ Len(last'.results[j].created) = 1
                     /\ last'.results[j].created[1] > Len(msgs)
                     /\ msgs'[last'.results[j].created[1]].message_id
                            = last'.input.messages[j].id]_vars

C11_Witness ==
    /\ WasBatch(last)
    /\ last.repeat
    /\ Len(msgs) = 2
    /\ last.results[1].created = <<2>>
    /\ msgs[1].message_id = last.input.messages[1].id
    /\ msgs[2].message_id = last.input.messages[1].id

\* ---- C12
\* C12: no two Message records carry the same non-null external message id.
C12_MessageIdsAreUnique ==
    \A i, j \in 1..Len(msgs) :
        (i # j /\ Truthy(msgs[i].message_id))
            => msgs[i].message_id # msgs[j].message_id

\* ---- C13
\* C13: every record created from a reaction is a reply to the message the
\* reaction names, whether or not the raw message carries a context.
C13_ReactionRepliesToInnerId ==
    WasBatch(last) =>
        \A j \in DOMAIN last.results :
            last.input.messages[j].type = "reaction" =>
                \A k \in 1..Len(Stored(last, j)) :
                    /\ Stored(last, j)[k].is_reply
                    /\ Stored(last, j)[k].reply_to_message_id
                           = last.input.messages[j].reaction_to

C13_Witness ==
    /\ WasBatch(last)
    /\ last.input.messages[1].type = "reaction"
    /\ last.input.messages[1].context = "wamid.ctx"
    /\ Len(Stored(last, 1)) = 1
    /\ Stored(last, 1)[1].reply_to_message_id = "wamid.out1"

\* ---- C14
NoReply(message) ==
    /\ message.type = "interactive"
    /\ ~KeyMissing(message.from)
    /\ ~KeyMissing(message.id)
    /\ message.has_interactive
    /\ message.button_reply = Absent
    /\ message.list_reply = Absent
    /\ message.nfm_reply = Absent

\* C14: an interactive message with none of button_reply, list_reply,
\* nfm_reply creates no record, and a warning is logged.
C14_EmptyInteractiveIsDroppedAndLogged ==
    WasBatch(last) =>
        \A j \in DOMAIN last.results :
            (last.results[j].reached /\ NoReply(last.input.messages[j]))
                => /\ last.results[j].created = <<>>
                   /\ last.results[j].logged >= 1

\* ---- C15
\* The types either the code or the specification handles by a rule of its own.
KnownTypes ==
    MediaTypes \cup {"text", "reaction", "interactive", "location", "contact",
                     "contacts", "button"}

IsMarker(message) ==
    Len(message) >= 14 /\ SubSeq(message, 1, 14) = "Unhandled type"

\* C15: a message of an unknown type raises nothing and is stored as exactly
\* one record whose content_type is the raw type and whose body is the
\* "unhandled type" marker.
C15_UnknownTypeIsStoredWithMarker ==
    WasBatch(last) =>
        \A j \in DOMAIN last.results :
            (/\ last.results[j].reached
             /\ ~KeyMissing(last.input.messages[j].from)
             /\ ~KeyMissing(last.input.messages[j].id)
             /\ last.input.messages[j].type \notin KnownTypes)
              => /\ ~last.results[j].raised
                 /\ Len(Stored(last, j)) = 1
                 /\ Stored(last, j)[1].content_type
                        = last.input.messages[j].type
                 /\ IsMarker(Stored(last, j)[1].message)

C15_Witness ==
    /\ WasBatch(last)
    /\ last.input.messages[1].type = "order"
    /\ Len(Stored(last, 1)) = 1
    /\ Stored(last, 1)[1].message = "Unhandled type: order"

\* ---- C16
\* The entry of one contact: "Name (wa_id)", "No WA ID" standing for a
\* wa_id that is not there.
ContactEntry(contact) ==
    contact.formatted_name
    \o " (" \o (IF contact.wa_id = Absent THEN "No WA ID" ELSE contact.wa_id)
    \o ")"

\* The entries of a contacts array in array order, joined by " | ".
RECURSIVE JoinedEntries(_)
JoinedEntries(contacts) ==
    IF Len(contacts) = 1 THEN ContactEntry(contacts[1])
    ELSE JoinedEntries(SubSeq(contacts, 1, Len(contacts) - 1))
         \o " | " \o ContactEntry(contacts[Len(contacts)])

\* A contacts array whose contacts all carry a name and whose wa_ids, where
\* there, are strings.
NamedContacts(contacts) ==
    /\ contacts # <<>>
    /\ \A k \in 1..Len(contacts) :
          /\ contacts[k].formatted_name \notin {None, Absent}
          /\ contacts[k].wa_id # None

\* C16: a message of type contacts is stored with content_type contacts and,
\* as its body, the "Name (wa_id)" entries of its contacts in array order
\* joined by " | ", "No WA ID" standing for a missing wa_id.
C16_ContactsAreJoined ==
    WasBatch(last) =>
        \A j \in DOMAIN last.results :
            (/\ last.results[j].reached
             /\ last.input.messages[j].type = "contacts"
             /\ last.input.messages[j].has_contacts
             /\ NamedContacts(last.input.messages[j].contacts))
              => /\ Len(Stored(last, j)) = 1
                 /\ Stored(last, j)[1].content_type = "contacts"
                 /\ Stored(last, j)[1].message
                        = JoinedEntries(last.input.messages[j].contacts)

\* ---- C17
Unresolved(l) ==
    /\ l.op = "post"
    /\ l.env.log_ok
    /\ l.input.shape = "ok"
    /\ \/ ~Truthy(l.input.phone_id)
       \/ get_whatsapp_account(l.input.phone_id) = None

\* C17: when the Account cannot be resolved the status event of the first
\* change entry is still reconciled and no Message record is created, with
\* or without messages in the payload.
C17_UnresolvedAccountStillReconciles ==
    [][(/\ Unresolved(last')
        /\ last'.input.field = "messages"
        /\ last'.input.statuses # <<>>
        /\ last'.env.name # 0)
          => /\ Len(msgs') = Len(msgs)
             /\ msgs'[last'.env.name].status
                    = last'.input.statuses[1].status]_vars

\* ---- C18
\* C18: the handshake echoes hub.challenge with status 200 exactly when some
\* Account has hub.verify_token as its webhook_verify_token.
C18_HandshakeByTokenValue ==
    last.op = "get" =>
        IF \E a \in Accounts :
               a.webhook_verify_token = last.input.verify_token
        THEN /\ ~last.raised
             /\ last.http = 200
             /\ last.echo = last.input.hub_challenge
        ELSE /\ last.raised
             /\ last.echo # last.input.hub_challenge

\* ---- C19
\* C19: a POST whose entry or changes array is missing or empty creates no
\* record, raises nothing and is acknowledged.
C19_BrokenEnvelopeIsAcknowledged ==
    (/\ last.op = "post"
     /\ last.env.log_ok
     /\ last.input.shape # "ok")
      => /\ ~last.raised
         /\ last.http = 200
         /\ last.created = <<>>

\* ---- C20
\* C20: when the NotificationLog insert fails, every message of the payload
\* that classifies is still stored.
C20_LogFailureDoesNotBlock ==
    (/\ last.op = "post"
     /\ ~last.env.log_ok
     /\ last.input.shape = "ok"
     /\ get_whatsapp_account(last.input.phone_id) # None)
      => \A j \in DOMAIN last.input.messages :
            Classifiable(last.input.messages[j], last.env.media[j])
              => \E k \in DOMAIN last.created :
                    msgs[last.created[k]].message_id
                        = last.input.messages[j].id

\* ---- C24
StartsWith(s, prefix) ==
    Len(s) >= Len(prefix) /\ SubSeq(s, 1, Len(prefix)) = prefix

\* C24: a location message is stored as exactly one record and raises
\* nothing; its body gives the latitude and longitude whenever the raw
\* message carries both (0 included), the placeholder only when one is absent.
C24_LocationBodyHasCoordinates ==
    WasBatch(last) =>
        \A j \in DOMAIN last.results :
            (/\ last.results[j].reached
             /\ last.input.messages[j].type = "location"
             /\ ~KeyMissing(last.input.messages[j].from)
             /\ ~KeyMissing(last.input.messages[j].id))
              => /\ ~last.results[j].raised
                 /\ Len(Stored(last, j)) = 1
                 /\ IF /\ last.input.messages[j].has_latitude
                       /\ last.input.messages[j].has_longitude
                    THEN StartsWith(Stored(last, j)[1].message,
                             "Lat: "
                             \o ToString(last.input.messages[j].latitude)
                             \o ", Lon: "
                             \o ToString(last.input.messages[j].longitude))
                    ELSE StartsWith(Stored(last, j)[1].message,
                             "Location received, but coordinates are missing.")

\* ---- C25
\* C25: when the Profile of the sender cannot be written, every message of
\* the payload that classifies is still stored.
C25_ProfileFailureDoesNotBlock ==
    (/\ last.op = "post"
     /\ last.env.log_ok
     /\ ~last.env.profile_ok
     /\ last.input.shape = "ok"
     /\ get_whatsapp_account(last.input.phone_id) # None)
      => \A j \in DOMAIN last.input.messages :
            Classifiable(last.input.messages[j], last.env.media[j])
              => \E k \in DOMAIN last.created :
                    msgs[last.created[k]].message_id
                        = last.input.messages[j].id

\* ---- C30
HasReplyKey(message) ==
    /\ message.type = "interactive"
    /\ ~KeyMissing(message.from)
    /\ ~KeyMissing(message.id)
    /\ message.has_interactive
    /\ ReplyText(message) \notin {Absent, Hollow, Empty}

\* C30: an interactive message carrying button_reply, list_reply or nfm_reply
\* is stored as exactly one reply record whose content_type is that of the
\* first key present, also when the title or response_json is empty.
C30_InteractiveReplyIsStored ==
    WasBatch(last) =>
        \A j \in DOMAIN last.results :
            (last.results[j].reached /\ HasReplyKey(last.input.messages[j]))
              => /\ Len(Stored(last, j)) = 1
                 /\ Stored(last, j)[1].is_reply
                 /\ Stored(last, j)[1].content_type =
                        CASE last.input.messages[j].button_reply # Absent
                                 -> "button_reply"
                          [] last.input.messages[j].list_reply # Absent
                                 -> "list_reply"
                          [] OTHER -> "flow_reply"

\* ---- C22
\* A `delivered` or `read` event with a timestamp reconciled against a known
\* Message.
TimedEvent(l) ==
    /\ WasStatusEvent(l)
    /\ ~l.raised
    /\ l.env.name # 0
    /\ l.input.statuses[1].status \in {"delivered", "read"}
    /\ Truthy(l.input.statuses[1].timestamp)

\* C22: after a `delivered` (resp. `read`) status event carrying a timestamp
\* is reconciled against a known Message, the record's delivered_at (resp.
\* read_at) is set, and conversation_id is the event's when it reports one.
C22_TimestampsAreRecorded ==
    TimedEvent(last) =>
        LET entry == last.input.statuses[1]
            doc == msgs[last.env.name]
        IN /\ entry.status = "delivered" => doc.delivered_at # None
           /\ entry.status = "read" => doc.read_at # None
           /\ Truthy(entry.conversation)
                 => doc.conversation_id = entry.conversation

\* ---- C23
\* C23: of a `messages` status event with several statuses entries only the
\* first is applied: the row it matched takes its status, every other
\* Message, those the later entries name included, is left as it was.
C23_OnlyFirstStatusEntryIsApplied ==
    [][(/\ WasStatusEvent(last')
        /\ Len(last'.input.statuses) > 1)
          => /\ ~last'.raised
             /\ Len(msgs') = Len(msgs)
             /\ \A i \in 1..Len(msgs) :
                   i # last'.env.name => msgs'[i] = msgs[i]
             /\ last'.env.name # 0
                   => msgs'[last'.env.name].status
                          = last'.input.statuses[1].status]_vars

C23_Witness ==
    /\ WasStatusEvent(last)
    /\ Len(last.input.statuses) > 1
    /\ last.env.name # 0
    /\ msgs[last.env.name].status = last.input.statuses[1].status
    /\ \E i \in 1..Len(msgs) :
          /\ i # last.env.name
          /\ msgs[i].message_id = last.input.statuses[2].id
          /\ msgs[i].status = "Success"
          /\ msgs[i].conversation_id = None

\* ---- C29
\* A webhook POST that went to update_status.
WasUpdateStatus(l) ==
    /\ l.op = "post"
    /\ l.env.log_ok
    /\ l.input.shape = "ok"
    /\ l.input.messages = <<>>

\* C29: update_status / update_message_status creates and deletes no Message
\* and, on the one matched record, changes only status and conversation_id
\* (message_id, type, from, to, message, content_type, attach and the rest
\* stay); conversation_id stays when the event carries no conversation id.
C29_StatusUpdateFrame ==
    [][WasUpdateStatus(last')
          => /\ Len(msgs') = Len(msgs)
             /\ last'.created = <<>>
             /\ \A i \in 1..Len(msgs) :
                   /\ i # last'.env.name => msgs'[i] = msgs[i]
                   /\ msgs'[i] = [msgs[i] EXCEPT
                                     !.status = msgs'[i].status,
                                     !.conversation_id =
                                         msgs'[i].conversation_id]
                   /\ (\/ last'.input.statuses = <<>>
                       \/ ~Truthy(last'.input.statuses[1].conversation))
                         => msgs'[i].conversation_id
                                = msgs[i].conversation_id]_vars

C29_Witness ==
    /\ WasStatusEvent(last)
    /\ ~last.raised
    /\ last.env.name # 0
    /\ last.input.statuses[1].conversation = None
    /\ last.input.statuses[1].status = "read"
    /\ msgs[last.env.name].status = "read"
    /\ msgs[last.env.name].conversation_id = "conv1"
    /\ msgs[last.env.name].message_id = last.input.statuses[1].id
    /\ msgs[last.env.name].type = "Outgoing"
    /\ msgs[last.env.name].message = "hi"

\* ---- C26
\* The blob stored for Message row n with the URL on that row.
HasBlob(n) ==
    \E f \in 1..Len(files) :
        /\ files[f].attached_to_name = n
        /\ files[f].file_url = msgs[n].attach

\* C26: handle_media_message's steps are ordered and gated: the content GET
\* only after the metadata GET answered 200, the File written only after the
\* content GET answered 200 and the Message was inserted, the attach URL set
\* only after the File was written; so every inbound Message with an attach
\* URL has a stored File attached to it.
C26_MediaStepsAreGated ==
    /\ \A n \in 1..Len(msgs) :
          (msgs[n].type = "Incoming" /\ Truthy(msgs[n].attach)) => HasBlob(n)
    /\ WasBatch(last) =>
          \A i \in DOMAIN last.results :
              (last.results[i].reached
               /\ last.input.messages[i].type \in MediaTypes) =>
                  LET r == last.results[i]
                      env == last.env.media[i]
                  IN /\ r.content_gets > 0
                        => (r.meta_gets = 1 /\ env.meta_status = 200)
                     /\ r.file_saves > 0
                        => /\ r.content_gets = 1
                           /\ env.content_status = 200
                           /\ Len(r.created) = 1
                           /\ env.file_ok
                     /\ \A k \in 1..Len(r.created) :
                           Truthy(msgs[r.created[k]].attach)
                               => (r.file_saves = 1 /\ HasBlob(r.created[k]))

C26_Witness ==
    /\ WasBatch(last)
    /\ \E i \in DOMAIN last.results :
          /\ last.input.messages[i].type = "image"
          /\ last.results[i].meta_gets = 1
          /\ last.results[i].content_gets = 1
          /\ last.results[i].file_saves = 1
          /\ Len(last.results[i].created) = 1
          /\ msgs[last.results[i].created[1]].attach = "/files/a1b2c3d4e5.jpeg"
          /\ HasBlob(last.results[i].created[1])

\* ---- C21
\* A request that built and POSTed the payload of a stored Template with
\* sample values and declared parameter fields.
BuiltTemplate(l) ==
    /\ l.op \in {"send_template", "insert_template"}
    /\ l.sent # <<>>
    /\ \E t \in Templates :
          /\ t.name = l.input.template
          /\ t.sample_values # <<>>
          /\ t.field_names # <<>>

\* The declared parameter fields of the request's template, trimmed.
DeclaredFields(l) ==
    LET t == CHOOSE t \in Templates : t.name = l.input.template
    IN [i \in 1..Len(t.field_names) |-> Strip(t.field_names[i])]

\* The value the request resolves for a declared field: from the explicit
\* value map when one is given, else from the reference document.
Resolved(l, field) ==
    IF l.op = "insert_template" /\ l.input.custom_ref_doc # <<>>
    THEN IF \E i \in 1..Len(l.input.custom_ref_doc) :
               l.input.custom_ref_doc[i][1] = field
         THEN LET i == CHOOSE i \in 1..Len(l.input.custom_ref_doc) :
                           l.input.custom_ref_doc[i][1] = field
              IN l.input.custom_ref_doc[i][2]
         ELSE None
    ELSE CASE field = "customer" -> "Alice"
           [] field = "name" -> l.input.reference_name
           [] OTHER -> None

\* C21: for a stored Template with sample values and n declared parameter
\* fields the POSTed payload's components hold exactly one `body` component,
\* with n `text` parameters, the i-th being the value resolved for the i-th
\* declared field (explicit value map, else reference document); the stored
\* record's template_parameters is the JSON list of the same values in order.
C21_BodyParametersFollowDeclaredFields ==
    BuiltTemplate(last) =>
        LET components == last.sent[1].components
            bodies == { k \in 1..Len(components) :
                          components[k].type = "body" }
            fields == DeclaredFields(last)
            values == [i \in 1..Len(fields) |-> Resolved(last, fields[i])]
        IN /\ Cardinality(bodies) = 1
           /\ \A k \in bodies :
                 /\ Len(components[k].parameters) = Len(fields)
                 /\ \A i \in 1..Len(fields) :
                       /\ components[k].parameters[i].type = "text"
                       /\ components[k].parameters[i].text = values[i]
           /\ \A c \in 1..Len(last.created) :
                 msgs[last.created[c]].template_parameters
                     = json_dumps(values)

C21_Witness ==
    /\ BuiltTemplate(last)
    /\ last.op = "send_template"
    /\ last.input.reference_name = "INV-42"
    /\ Len(last.created) = 1
    /\ Len(last.sent[1].components) = 1
    /\ last.sent[1].components[1].type = "body"
    /\ last.sent[1].components[1].parameters
           = <<[text |-> "Alice", type |-> "text"],
               [text |-> "INV-42", type |-> "text"]>>
    /\ msgs[last.created[1]].template_parameters = "[\"Alice\", \"INV-42\"]"

\* ---- C27
\* C27: a delivery/read status event for external id X processed after the
\* send API has returned X and before the outbound record is persisted is
\* not lost: once the send request has finished, the record of X holds the
\* event's status.
C27_StatusDuringSendIsApplied ==
    [][(/\ inflight.stage = "sending"
        /\ inflight'.stage = "idle"
        /\ WasStatusEvent(last)
        /\ ~last.raised
        /\ last.input.statuses[1].id = inflight.doc.message_id
        /\ ~last'.raised)
          => \E n \in 1..Len(msgs') :
                /\ msgs'[n].message_id = inflight.doc.message_id
                /\ msgs'[n].status = last.input.statuses[1].status]_vars

\* ---- C28
\* C28: a status update applied to a media Message between
\* handle_media_message's insert of the record and its attach save is not
\* lost: once both have completed the record holds the updated status, the
\* conversation id the event reported and the attach URL.
C28_StatusDuringAttachIsKept ==
    [][(/\ inflight.stage = "attaching"
        /\ inflight'.stage = "idle"
        /\ inflight.env.media[inflight.index].file_ok
        /\ WasStatusEvent(last)
        /\ ~last.raised
        /\ last.env.name = inflight.doc.name)
          => LET row == msgs'[inflight.doc.name]
                 entry == last.input.statuses[1]
             IN /\ row.status = entry.status
                /\ Truthy(entry.conversation)
                      => row.conversation_id = entry.conversation
                /\ Truthy(row.attach)]_vars
====
